---- MODULE Spec2Model ----
(***************************************************************************)
(* SCPI status model, command dispatcher and line server of                *)
(* workbench/utils/server.py, with the ScpiSignalGenerator personality of  *)
(* workbench/instruments/audio/__init__.py as the served device.           *)
(*                                                                         *)
(* A command line is a sequence of characters, each its Unicode code       *)
(* point, so that the regular expressions, str.strip, str.upper, str.split *)
(* and int()/float() are computed character by character.  Socket data is  *)
(* a sequence of bytes, which the incremental UTF-8 decoder of the         *)
(* connection's thread turns into characters.  Text produced by the        *)
(* instrument (responses, error messages) is a string.  A Python None is   *)
(* the empty tuple, a Python value v that may be None is the one-element   *)
(* tuple <<v>>.                                                            *)
(***************************************************************************)
EXTENDS Integers, Sequences, FiniteSets, TLC

VARIABLES
    esr,            \* ScpiInstrument.esr
    sre,            \* ScpiInstrument.sre
    errors,         \* ScpiInstrument.errors, a list of <<code, message>>
    output_config,  \* AudioInterface.output_config, one record per channel
    call,           \* the most recent direct call of the instrument's API
    conn,           \* per connection: the locals of ScpiServer.client_thread
    lock,           \* AudioInterface.lock: None, or Some(thread) holding it
    audio           \* the audio stream's thread: "idle" or in its "callback"

vars == <<esr, sre, errors, output_config, call, conn, lock, audio>>

(***************************************************************************)
(* Bounds of the model.                                                    *)
(***************************************************************************)
\* longest error queue explored (the list itself is unbounded)
MaxErrors == 2
\* number of output channels of the audio device (max_output_channels)
OutputChannels == 2
\* number of recv() calls that return data, over all connections
MaxRecv == 3

(***************************************************************************)
(* Program constants.                                                      *)
(***************************************************************************)
ESR_OPC == 1
ESR_QUERY_ERROR == 4
ESR_DDE_ERROR == 8
ESR_EXEC_ERROR == 16
ESR_CMD_ERROR == 32
STB_ESB == 32

None == <<>>
Some(v) == <<v>>

\* the characters for which str.isspace() is true: str.strip() removes them
\* and \s matches them
WhitespaceChars ==
    {9, 10, 11, 12, 13, 28, 29, 30, 31, 32, 133, 160, 5760, 8192, 8193, 8194,
     8195, 8196, 8197, 8198, 8199, 8200, 8201, 8202, 8232, 8233, 8239, 8287,
     12288}

\* the code points of the digits zero of Unicode category Nd: each is
\* followed by the digits one to nine of its script
DecimalZeros ==
    {48, 1632, 1776, 1984, 2406, 2534, 2662, 2790, 2918, 3046, 3174, 3302,
     3430, 3558, 3664, 3792, 3872, 4160, 4240, 6112, 6160, 6470, 6608, 6784,
     6800, 6992, 7088, 7232, 7248, 42528, 43216, 43264, 43472, 43504, 43600,
     44016, 65296, 66720, 68912, 69734, 69872, 69942, 70096, 70384, 70736,
     70864, 71248, 71360, 71472, 71904, 72016, 72784, 73040, 73120, 92768,
     92864, 93008, 120782, 120792, 120802, 120812, 120822, 123200, 123632,
     125264, 130032}

\* the ranges of the code points above U+007F that \w matches
\* (str.isalnum() or the underscore), in ascending order: the first and
\* the last code point of each range, one range after the other
WordRanges ==
    <<170, 170, 178, 179, 181, 181, 185, 186, 188, 190, 192, 214, 216, 246,
      248, 705, 710, 721, 736, 740, 748, 748, 750, 750, 880, 884, 886, 887, 890,
      893, 895, 895, 902, 902, 904, 906, 908, 908, 910, 929, 931, 1013, 1015,
      1153, 1162, 1327, 1329, 1366, 1369, 1369, 1376, 1416, 1488, 1514, 1519,
      1522, 1568, 1610, 1632, 1641, 1646, 1647, 1649, 1747, 1749, 1749, 1765,
      1766, 1774, 1788, 1791, 1791, 1808, 1808, 1810, 1839, 1869, 1957, 1969,
      1969, 1984, 2026, 2036, 2037, 2042, 2042, 2048, 2069, 2074, 2074, 2084,
      2084, 2088, 2088, 2112, 2136, 2144, 2154, 2160, 2183, 2185, 2190, 2208,
      2249, 2308, 2361, 2365, 2365, 2384, 2384, 2392, 2401, 2406, 2415, 2417,
      2432, 2437, 2444, 2447, 2448, 2451, 2472, 2474, 2480, 2482, 2482, 2486,
      2489, 2493, 2493, 2510, 2510, 2524, 2525, 2527, 2529, 2534, 2545, 2548,
      2553, 2556, 2556, 2565, 2570, 2575, 2576, 2579, 2600, 2602, 2608, 2610,
      2611, 2613, 2614, 2616, 2617, 2649, 2652, 2654, 2654, 2662, 2671, 2674,
      2676, 2693, 2701, 2703, 2705, 2707, 2728, 2730, 2736, 2738, 2739, 2741,
      2745, 2749, 2749, 2768, 2768, 2784, 2785, 2790, 2799, 2809, 2809, 2821,
      2828, 2831, 2832, 2835, 2856, 2858, 2864, 2866, 2867, 2869, 2873, 2877,
      2877, 2908, 2909, 2911, 2913, 2918, 2927, 2929, 2935, 2947, 2947, 2949,
      2954, 2958, 2960, 2962, 2965, 2969, 2970, 2972, 2972, 2974, 2975, 2979,
      2980, 2984, 2986, 2990, 3001, 3024, 3024, 3046, 3058, 3077, 3084, 3086,
      3088, 3090, 3112, 3114, 3129, 3133, 3133, 3160, 3162, 3165, 3165, 3168,
      3169, 3174, 3183, 3192, 3198, 3200, 3200, 3205, 3212, 3214, 3216, 3218,
      3240, 3242, 3251, 3253, 3257, 3261, 3261, 3293, 3294, 3296, 3297, 3302,
      3311, 3313, 3314, 3332, 3340, 3342, 3344, 3346, 3386, 3389, 3389, 3406,
      3406, 3412, 3414, 3416, 3425, 3430, 3448, 3450, 3455, 3461, 3478, 3482,
      3505, 3507, 3515, 3517, 3517, 3520, 3526, 3558, 3567, 3585, 3632, 3634,
      3635, 3648, 3654, 3664, 3673, 3713, 3714, 3716, 3716, 3718, 3722, 3724,
      3747, 3749, 3749, 3751, 3760, 3762, 3763, 3773, 3773, 3776, 3780, 3782,
      3782, 3792, 3801, 3804, 3807, 3840, 3840, 3872, 3891, 3904, 3911, 3913,
      3948, 3976, 3980, 4096, 4138, 4159, 4169, 4176, 4181, 4186, 4189, 4193,
      4193, 4197, 4198, 4206, 4208, 4213, 4225, 4238, 4238, 4240, 4249, 4256,
      4293, 4295, 4295, 4301, 4301, 4304, 4346, 4348, 4680, 4682, 4685, 4688,
      4694, 4696, 4696, 4698, 4701, 4704, 4744, 4746, 4749, 4752, 4784, 4786,
      4789, 4792, 4798, 4800, 4800, 4802, 4805, 4808, 4822, 4824, 4880, 4882,
      4885, 4888, 4954, 4969, 4988, 4992, 5007, 5024, 5109, 5112, 5117, 5121,
      5740, 5743, 5759, 5761, 5786, 5792, 5866, 5870, 5880, 5888, 5905, 5919,
      5937, 5952, 5969, 5984, 5996, 5998, 6000, 6016, 6067, 6103, 6103, 6108,
      6108, 6112, 6121, 6128, 6137, 6160, 6169, 6176, 6264, 6272, 6276, 6279,
      6312, 6314, 6314, 6320, 6389, 6400, 6430, 6470, 6509, 6512, 6516, 6528,
      6571, 6576, 6601, 6608, 6618, 6656, 6678, 6688, 6740, 6784, 6793, 6800,
      6809, 6823, 6823, 6917, 6963, 6981, 6988, 6992, 7001, 7043, 7072, 7086,
      7141, 7168, 7203, 7232, 7241, 7245, 7293, 7296, 7304, 7312, 7354, 7357,
      7359, 7401, 7404, 7406, 7411, 7413, 7414, 7418, 7418, 7424, 7615, 7680,
      7957, 7960, 7965, 7968, 8005, 8008, 8013, 8016, 8023, 8025, 8025, 8027,
      8027, 8029, 8029, 8031, 8061, 8064, 8116, 8118, 8124, 8126, 8126, 8130,
      8132, 8134, 8140, 8144, 8147, 8150, 8155, 8160, 8172, 8178, 8180, 8182,
      8188, 8304, 8305, 8308, 8313, 8319, 8329, 8336, 8348, 8450, 8450, 8455,
      8455, 8458, 8467, 8469, 8469, 8473, 8477, 8484, 8484, 8486, 8486, 8488,
      8488, 8490, 8493, 8495, 8505, 8508, 8511, 8517, 8521, 8526, 8526, 8528,
      8585, 9312, 9371, 9450, 9471, 10102, 10131, 11264, 11492, 11499, 11502,
      11506, 11507, 11517, 11517, 11520, 11557, 11559, 11559, 11565, 11565,
      11568, 11623, 11631, 11631, 11648, 11670, 11680, 11686, 11688, 11694,
      11696, 11702, 11704, 11710, 11712, 11718, 11720, 11726, 11728, 11734,
      11736, 11742, 11823, 11823, 12293, 12295, 12321, 12329, 12337, 12341,
      12344, 12348, 12353, 12438, 12445, 12447, 12449, 12538, 12540, 12543,
      12549, 12591, 12593, 12686, 12690, 12693, 12704, 12735, 12784, 12799,
      12832, 12841, 12872, 12879, 12881, 12895, 12928, 12937, 12977, 12991,
      13312, 19903, 19968, 42124, 42192, 42237, 42240, 42508, 42512, 42539,
      42560, 42606, 42623, 42653, 42656, 42735, 42775, 42783, 42786, 42888,
      42891, 42954, 42960, 42961, 42963, 42963, 42965, 42969, 42994, 43009,
      43011, 43013, 43015, 43018, 43020, 43042, 43056, 43061, 43072, 43123,
      43138, 43187, 43216, 43225, 43250, 43255, 43259, 43259, 43261, 43262,
      43264, 43301, 43312, 43334, 43360, 43388, 43396, 43442, 43471, 43481,
      43488, 43492, 43494, 43518, 43520, 43560, 43584, 43586, 43588, 43595,
      43600, 43609, 43616, 43638, 43642, 43642, 43646, 43695, 43697, 43697,
      43701, 43702, 43705, 43709, 43712, 43712, 43714, 43714, 43739, 43741,
      43744, 43754, 43762, 43764, 43777, 43782, 43785, 43790, 43793, 43798,
      43808, 43814, 43816, 43822, 43824, 43866, 43868, 43881, 43888, 44002,
      44016, 44025, 44032, 55203, 55216, 55238, 55243, 55291, 63744, 64109,
      64112, 64217, 64256, 64262, 64275, 64279, 64285, 64285, 64287, 64296,
      64298, 64310, 64312, 64316, 64318, 64318, 64320, 64321, 64323, 64324,
      64326, 64433, 64467, 64829, 64848, 64911, 64914, 64967, 65008, 65019,
      65136, 65140, 65142, 65276, 65296, 65305, 65313, 65338, 65345, 65370,
      65382, 65470, 65474, 65479, 65482, 65487, 65490, 65495, 65498, 65500,
      65536, 65547, 65549, 65574, 65576, 65594, 65596, 65597, 65599, 65613,
      65616, 65629, 65664, 65786, 65799, 65843, 65856, 65912, 65930, 65931,
      66176, 66204, 66208, 66256, 66273, 66299, 66304, 66339, 66349, 66378,
      66384, 66421, 66432, 66461, 66464, 66499, 66504, 66511, 66513, 66517,
      66560, 66717, 66720, 66729, 66736, 66771, 66776, 66811, 66816, 66855,
      66864, 66915, 66928, 66938, 66940, 66954, 66956, 66962, 66964, 66965,
      66967, 66977, 66979, 66993, 66995, 67001, 67003, 67004, 67072, 67382,
      67392, 67413, 67424, 67431, 67456, 67461, 67463, 67504, 67506, 67514,
      67584, 67589, 67592, 67592, 67594, 67637, 67639, 67640, 67644, 67644,
      67647, 67669, 67672, 67702, 67705, 67742, 67751, 67759, 67808, 67826,
      67828, 67829, 67835, 67867, 67872, 67897, 67968, 68023, 68028, 68047,
      68050, 68096, 68112, 68115, 68117, 68119, 68121, 68149, 68160, 68168,
      68192, 68222, 68224, 68255, 68288, 68295, 68297, 68324, 68331, 68335,
      68352, 68405, 68416, 68437, 68440, 68466, 68472, 68497, 68521, 68527,
      68608, 68680, 68736, 68786, 68800, 68850, 68858, 68899, 68912, 68921,
      69216, 69246, 69248, 69289, 69296, 69297, 69376, 69415, 69424, 69445,
      69457, 69460, 69488, 69505, 69552, 69579, 69600, 69622, 69635, 69687,
      69714, 69743, 69745, 69746, 69749, 69749, 69763, 69807, 69840, 69864,
      69872, 69881, 69891, 69926, 69942, 69951, 69956, 69956, 69959, 69959,
      69968, 70002, 70006, 70006, 70019, 70066, 70081, 70084, 70096, 70106,
      70108, 70108, 70113, 70132, 70144, 70161, 70163, 70187, 70272, 70278,
      70280, 70280, 70282, 70285, 70287, 70301, 70303, 70312, 70320, 70366,
      70384, 70393, 70405, 70412, 70415, 70416, 70419, 70440, 70442, 70448,
      70450, 70451, 70453, 70457, 70461, 70461, 70480, 70480, 70493, 70497,
      70656, 70708, 70727, 70730, 70736, 70745, 70751, 70753, 70784, 70831,
      70852, 70853, 70855, 70855, 70864, 70873, 71040, 71086, 71128, 71131,
      71168, 71215, 71236, 71236, 71248, 71257, 71296, 71338, 71352, 71352,
      71360, 71369, 71424, 71450, 71472, 71483, 71488, 71494, 71680, 71723,
      71840, 71922, 71935, 71942, 71945, 71945, 71948, 71955, 71957, 71958,
      71960, 71983, 71999, 71999, 72001, 72001, 72016, 72025, 72096, 72103,
      72106, 72144, 72161, 72161, 72163, 72163, 72192, 72192, 72203, 72242,
      72250, 72250, 72272, 72272, 72284, 72329, 72349, 72349, 72368, 72440,
      72704, 72712, 72714, 72750, 72768, 72768, 72784, 72812, 72818, 72847,
      72960, 72966, 72968, 72969, 72971, 73008, 73030, 73030, 73040, 73049,
      73056, 73061, 73063, 73064, 73066, 73097, 73112, 73112, 73120, 73129,
      73440, 73458, 73648, 73648, 73664, 73684, 73728, 74649, 74752, 74862,
      74880, 75075, 77712, 77808, 77824, 78894, 82944, 83526, 92160, 92728,
      92736, 92766, 92768, 92777, 92784, 92862, 92864, 92873, 92880, 92909,
      92928, 92975, 92992, 92995, 93008, 93017, 93019, 93025, 93027, 93047,
      93053, 93071, 93760, 93846, 93952, 94026, 94032, 94032, 94099, 94111,
      94176, 94177, 94179, 94179, 94208, 100343, 100352, 101589, 101632, 101640,
      110576, 110579, 110581, 110587, 110589, 110590, 110592, 110882, 110928,
      110930, 110948, 110951, 110960, 111355, 113664, 113770, 113776, 113788,
      113792, 113800, 113808, 113817, 119520, 119539, 119648, 119672, 119808,
      119892, 119894, 119964, 119966, 119967, 119970, 119970, 119973, 119974,
      119977, 119980, 119982, 119993, 119995, 119995, 119997, 120003, 120005,
      120069, 120071, 120074, 120077, 120084, 120086, 120092, 120094, 120121,
      120123, 120126, 120128, 120132, 120134, 120134, 120138, 120144, 120146,
      120485, 120488, 120512, 120514, 120538, 120540, 120570, 120572, 120596,
      120598, 120628, 120630, 120654, 120656, 120686, 120688, 120712, 120714,
      120744, 120746, 120770, 120772, 120779, 120782, 120831, 122624, 122654,
      123136, 123180, 123191, 123197, 123200, 123209, 123214, 123214, 123536,
      123565, 123584, 123627, 123632, 123641, 124896, 124902, 124904, 124907,
      124909, 124910, 124912, 124926, 124928, 125124, 125127, 125135, 125184,
      125251, 125259, 125259, 125264, 125273, 126065, 126123, 126125, 126127,
      126129, 126132, 126209, 126253, 126255, 126269, 126464, 126467, 126469,
      126495, 126497, 126498, 126500, 126500, 126503, 126503, 126505, 126514,
      126516, 126519, 126521, 126521, 126523, 126523, 126530, 126530, 126535,
      126535, 126537, 126537, 126539, 126539, 126541, 126543, 126545, 126546,
      126548, 126548, 126551, 126551, 126553, 126553, 126555, 126555, 126557,
      126557, 126559, 126559, 126561, 126562, 126564, 126564, 126567, 126570,
      126572, 126578, 126580, 126583, 126585, 126588, 126590, 126590, 126592,
      126601, 126603, 126619, 126625, 126627, 126629, 126633, 126635, 126651,
      127232, 127244, 130032, 130041, 131072, 173791, 173824, 177976, 177984,
      178205, 178208, 183969, 183984, 191456, 194560, 195101, 196608, 201546>>

\* str.upper() above U+007F, for the characters with a one-character upper
\* case: four numbers a run, the first and the last code point, the step
\* between its code points and the upper case of the first; the upper
\* case of the others is as far from them
UpperRuns ==
    <<181, 181, 1, 924, 224, 246, 1, 192, 248, 254, 1, 216, 255, 255, 1, 376,
      257, 303, 2, 256, 305, 305, 1, 73, 307, 311, 2, 306, 314, 328, 2, 313,
      331, 375, 2, 330, 378, 382, 2, 377, 383, 383, 1, 83, 384, 384, 1, 579,
      387, 389, 2, 386, 392, 392, 1, 391, 396, 396, 1, 395, 402, 402, 1, 401,
      405, 405, 1, 502, 409, 409, 1, 408, 410, 410, 1, 573, 414, 414, 1, 544,
      417, 421, 2, 416, 424, 424, 1, 423, 429, 429, 1, 428, 432, 432, 1, 431,
      436, 438, 2, 435, 441, 441, 1, 440, 445, 445, 1, 444, 447, 447, 1, 503,
      453, 453, 1, 452, 454, 454, 1, 452, 456, 456, 1, 455, 457, 457, 1, 455,
      459, 459, 1, 458, 460, 460, 1, 458, 462, 476, 2, 461, 477, 477, 1, 398,
      479, 495, 2, 478, 498, 498, 1, 497, 499, 499, 1, 497, 501, 501, 1, 500,
      505, 543, 2, 504, 547, 563, 2, 546, 572, 572, 1, 571, 575, 576, 1, 11390,
      578, 578, 1, 577, 583, 591, 2, 582, 592, 592, 1, 11375, 593, 593, 1,
      11373, 594, 594, 1, 11376, 595, 595, 1, 385, 596, 596, 1, 390, 598, 599,
      1, 393, 601, 601, 1, 399, 603, 603, 1, 400, 604, 604, 1, 42923, 608, 608,
      1, 403, 609, 609, 1, 42924, 611, 611, 1, 404, 613, 613, 1, 42893, 614,
      614, 1, 42922, 616, 616, 1, 407, 617, 617, 1, 406, 618, 618, 1, 42926,
      619, 619, 1, 11362, 620, 620, 1, 42925, 623, 623, 1, 412, 625, 625, 1,
      11374, 626, 626, 1, 413, 629, 629, 1, 415, 637, 637, 1, 11364, 640, 640,
      1, 422, 642, 642, 1, 42949, 643, 643, 1, 425, 647, 647, 1, 42929, 648,
      648, 1, 430, 649, 649, 1, 580, 650, 651, 1, 433, 652, 652, 1, 581, 658,
      658, 1, 439, 669, 669, 1, 42930, 670, 670, 1, 42928, 837, 837, 1, 921,
      881, 883, 2, 880, 887, 887, 1, 886, 891, 893, 1, 1021, 940, 940, 1, 902,
      941, 943, 1, 904, 945, 961, 1, 913, 962, 962, 1, 931, 963, 971, 1, 931,
      972, 972, 1, 908, 973, 974, 1, 910, 976, 976, 1, 914, 977, 977, 1, 920,
      981, 981, 1, 934, 982, 982, 1, 928, 983, 983, 1, 975, 985, 1007, 2, 984,
      1008, 1008, 1, 922, 1009, 1009, 1, 929, 1010, 1010, 1, 1017, 1011, 1011,
      1, 895, 1013, 1013, 1, 917, 1016, 1016, 1, 1015, 1019, 1019, 1, 1018,
      1072, 1103, 1, 1040, 1104, 1119, 1, 1024, 1121, 1153, 2, 1120, 1163, 1215,
      2, 1162, 1218, 1230, 2, 1217, 1231, 1231, 1, 1216, 1233, 1327, 2, 1232,
      1377, 1414, 1, 1329, 4304, 4346, 1, 7312, 4349, 4351, 1, 7357, 5112, 5117,
      1, 5104, 7296, 7296, 1, 1042, 7297, 7297, 1, 1044, 7298, 7298, 1, 1054,
      7299, 7300, 1, 1057, 7301, 7301, 1, 1058, 7302, 7302, 1, 1066, 7303, 7303,
      1, 1122, 7304, 7304, 1, 42570, 7545, 7545, 1, 42877, 7549, 7549, 1, 11363,
      7566, 7566, 1, 42950, 7681, 7829, 2, 7680, 7835, 7835, 1, 7776, 7841,
      7935, 2, 7840, 7936, 7943, 1, 7944, 7952, 7957, 1, 7960, 7968, 7975, 1,
      7976, 7984, 7991, 1, 7992, 8000, 8005, 1, 8008, 8017, 8023, 2, 8025, 8032,
      8039, 1, 8040, 8048, 8049, 1, 8122, 8050, 8053, 1, 8136, 8054, 8055, 1,
      8154, 8056, 8057, 1, 8184, 8058, 8059, 1, 8170, 8060, 8061, 1, 8186, 8112,
      8113, 1, 8120, 8126, 8126, 1, 921, 8144, 8145, 1, 8152, 8160, 8161, 1,
      8168, 8165, 8165, 1, 8172, 8526, 8526, 1, 8498, 8560, 8575, 1, 8544, 8580,
      8580, 1, 8579, 9424, 9449, 1, 9398, 11312, 11359, 1, 11264, 11361, 11361,
      1, 11360, 11365, 11365, 1, 570, 11366, 11366, 1, 574, 11368, 11372, 2,
      11367, 11379, 11379, 1, 11378, 11382, 11382, 1, 11381, 11393, 11491, 2,
      11392, 11500, 11502, 2, 11499, 11507, 11507, 1, 11506, 11520, 11557, 1,
      4256, 11559, 11559, 1, 4295, 11565, 11565, 1, 4301, 42561, 42605, 2,
      42560, 42625, 42651, 2, 42624, 42787, 42799, 2, 42786, 42803, 42863, 2,
      42802, 42874, 42876, 2, 42873, 42879, 42887, 2, 42878, 42892, 42892, 1,
      42891, 42897, 42899, 2, 42896, 42900, 42900, 1, 42948, 42903, 42921, 2,
      42902, 42933, 42947, 2, 42932, 42952, 42954, 2, 42951, 42961, 42961, 1,
      42960, 42967, 42969, 2, 42966, 42998, 42998, 1, 42997, 43859, 43859, 1,
      42931, 43888, 43967, 1, 5024, 65345, 65370, 1, 65313, 66600, 66639, 1,
      66560, 66776, 66811, 1, 66736, 66967, 66977, 1, 66928, 66979, 66993, 1,
      66940, 66995, 67001, 1, 66956, 67003, 67004, 1, 66964, 68800, 68850, 1,
      68736, 71872, 71903, 1, 71840, 93792, 93823, 1, 93760, 125218, 125251, 1,
      125184>>

\* str.upper() for the characters whose upper case has several characters:
\* four numbers each, the code point and the two or three of its upper
\* case, with a zero after two
UpperSpecial ==
    <<223, 83, 83, 0, 329, 700, 78, 0, 496, 74, 780, 0, 912, 921, 776, 769,
      944, 933, 776, 769, 1415, 1333, 1362, 0, 7830, 72, 817, 0, 7831, 84, 776,
      0, 7832, 87, 778, 0, 7833, 89, 778, 0, 7834, 65, 702, 0, 8016, 933, 787,
      0, 8018, 933, 787, 768, 8020, 933, 787, 769, 8022, 933, 787, 834, 8064,
      7944, 921, 0, 8065, 7945, 921, 0, 8066, 7946, 921, 0, 8067, 7947, 921, 0,
      8068, 7948, 921, 0, 8069, 7949, 921, 0, 8070, 7950, 921, 0, 8071, 7951,
      921, 0, 8072, 7944, 921, 0, 8073, 7945, 921, 0, 8074, 7946, 921, 0, 8075,
      7947, 921, 0, 8076, 7948, 921, 0, 8077, 7949, 921, 0, 8078, 7950, 921, 0,
      8079, 7951, 921, 0, 8080, 7976, 921, 0, 8081, 7977, 921, 0, 8082, 7978,
      921, 0, 8083, 7979, 921, 0, 8084, 7980, 921, 0, 8085, 7981, 921, 0, 8086,
      7982, 921, 0, 8087, 7983, 921, 0, 8088, 7976, 921, 0, 8089, 7977, 921, 0,
      8090, 7978, 921, 0, 8091, 7979, 921, 0, 8092, 7980, 921, 0, 8093, 7981,
      921, 0, 8094, 7982, 921, 0, 8095, 7983, 921, 0, 8096, 8040, 921, 0, 8097,
      8041, 921, 0, 8098, 8042, 921, 0, 8099, 8043, 921, 0, 8100, 8044, 921, 0,
      8101, 8045, 921, 0, 8102, 8046, 921, 0, 8103, 8047, 921, 0, 8104, 8040,
      921, 0, 8105, 8041, 921, 0, 8106, 8042, 921, 0, 8107, 8043, 921, 0, 8108,
      8044, 921, 0, 8109, 8045, 921, 0, 8110, 8046, 921, 0, 8111, 8047, 921, 0,
      8114, 8122, 921, 0, 8115, 913, 921, 0, 8116, 902, 921, 0, 8118, 913, 834,
      0, 8119, 913, 834, 921, 8124, 913, 921, 0, 8130, 8138, 921, 0, 8131, 919,
      921, 0, 8132, 905, 921, 0, 8134, 919, 834, 0, 8135, 919, 834, 921, 8140,
      919, 921, 0, 8146, 921, 776, 768, 8147, 921, 776, 769, 8150, 921, 834, 0,
      8151, 921, 776, 834, 8162, 933, 776, 768, 8163, 933, 776, 769, 8164, 929,
      787, 0, 8166, 933, 834, 0, 8167, 933, 776, 834, 8178, 8186, 921, 0, 8179,
      937, 921, 0, 8180, 911, 921, 0, 8182, 937, 834, 0, 8183, 937, 834, 921,
      8188, 937, 921, 0, 64256, 70, 70, 0, 64257, 70, 73, 0, 64258, 70, 76, 0,
      64259, 70, 70, 73, 64260, 70, 70, 76, 64261, 83, 84, 0, 64262, 83, 84, 0,
      64275, 1348, 1350, 0, 64276, 1348, 1333, 0, 64277, 1348, 1339, 0, 64278,
      1358, 1350, 0, 64279, 1348, 1341, 0>>

(***************************************************************************)
(* Characters.  A character is its Unicode code point; Text turns a        *)
(* sequence of one-character ASCII strings into the text it spells.        *)
(***************************************************************************)
\* the ASCII characters U+0020 to U+005F
AsciiChars ==
    <<" ", "!", "\"", "#", "$", "%", "&", "'", "(", ")", "*", "+", ",", "-", ".", "/",
      "0", "1", "2", "3", "4", "5", "6", "7", "8", "9", ":", ";", "<", "=", ">", "?",
      "@", "A", "B", "C", "D", "E", "F", "G", "H", "I", "J", "K", "L", "M", "N", "O",
      "P", "Q", "R", "S", "T", "U", "V", "W", "X", "Y", "Z", "[", "\\", "]", "^", "_">>

\* the ASCII characters U+0061 to U+007E
AsciiLowerChars ==
    <<"a", "b", "c", "d", "e", "f", "g", "h", "i", "j", "k", "l", "m", "n", "o",
      "p", "q", "r", "s", "t", "u", "v", "w", "x", "y", "z", "{", "|", "}", "~">>

OrdMap ==
    [ch \in {AsciiChars[i] : i \in 1..64} \cup {AsciiLowerChars[i] : i \in 1..30}
                \cup {"\t", "\n", "\f", "\r"} |->
        CASE ch = "\t" -> 9
          [] ch = "\n" -> 10
          [] ch = "\f" -> 12
          [] ch = "\r" -> 13
          [] \E i \in 1..64 : AsciiChars[i] = ch ->
                 31 + (CHOOSE i \in 1..64 : AsciiChars[i] = ch)
          [] OTHER -> 96 + (CHOOSE i \in 1..30 : AsciiLowerChars[i] = ch)]

\* ord(ch)
Ord(ch) == OrdMap[ch]

\* the text spelled by a sequence of one-character strings
Text(chars) == [i \in 1..Len(chars) |-> Ord(chars[i])]

(***************************************************************************)
(* Python integer and string primitives.                                   *)
(***************************************************************************)
RECURSIVE BitAnd(_, _)
BitAnd(a, b) ==
    IF a = 0 \/ b = 0 THEN 0
    ELSE (a % 2) * (b % 2) + 2 * BitAnd(a \div 2, b \div 2)

RECURSIVE BitOr(_, _)
BitOr(a, b) ==
    IF a = 0 THEN b
    ELSE IF b = 0 THEN a
    ELSE (IF a % 2 = 1 \/ b % 2 = 1 THEN 1 ELSE 0) + 2 * BitOr(a \div 2, b \div 2)

Max(a, b) == IF a >= b THEN a ELSE b

DigitChars == <<"0", "1", "2", "3", "4", "5", "6", "7", "8", "9">>

RECURSIVE NatToStr(_)
NatToStr(n) ==
    IF n < 10 THEN DigitChars[n + 1]
    ELSE NatToStr(n \div 10) \o DigitChars[(n % 10) + 1]

\* str(n) for an int n
IntToStr(n) == IF n < 0 THEN "-" \o NatToStr(-n) ELSE NatToStr(n)

\* a decimal digit of any script: what \d matches and int() and float() read
IsDigit(c) == (48 <= c /\ c <= 57) \/ (c > 127 /\ \E z \in DecimalZeros : z <= c /\ c <= z + 9)

\* the value of a decimal digit
DigitVal(c) ==
    IF c <= 57 THEN c - 48 ELSE c - (CHOOSE z \in DecimalZeros : z <= c /\ c <= z + 9)

\* str.isspace() of a character: what str.strip() removes and \s matches
IsSpace(c) == c \in WhitespaceChars

\* the whitespace int() and float() accept around a number: U+001C to
\* U+001F are not part of it
IsNumberSpace(c) == IsSpace(c) /\ ~(28 <= c /\ c <= 31)

\* the character a letter of a pattern is compared with under
\* re.IGNORECASE: the upper case of an ASCII letter, I for U+0130 and U+0131,
\* S for U+017F, K for U+212A
UpperChar(c) ==
    IF 97 <= c /\ c <= 122 THEN c - 32
    ELSE IF c = 304 \/ c = 305 THEN 73
    ELSE IF c = 383 THEN 83
    ELSE IF c = 8490 THEN 75
    ELSE c

\* a character of a table, where 0 fills the place of none
IsCodePoint(c) == c # 0

\* the entry of UpperSpecial for the character c, 0 without one
SpecialOf(c) ==
    IF \E i \in 1..(Len(UpperSpecial) \div 4) : UpperSpecial[4 * i - 3] = c
    THEN CHOOSE i \in 1..(Len(UpperSpecial) \div 4) : UpperSpecial[4 * i - 3] = c
    ELSE 0

\* the run of UpperRuns that holds the character c, 0 without one
RunOf(c) ==
    IF \E i \in 1..(Len(UpperRuns) \div 4) :
           /\ UpperRuns[4 * i - 3] <= c /\ c <= UpperRuns[4 * i - 2]
           /\ (c - UpperRuns[4 * i - 3]) % UpperRuns[4 * i - 1] = 0
    THEN CHOOSE i \in 1..(Len(UpperRuns) \div 4) :
             /\ UpperRuns[4 * i - 3] <= c /\ c <= UpperRuns[4 * i - 2]
             /\ (c - UpperRuns[4 * i - 3]) % UpperRuns[4 * i - 1] = 0
    ELSE 0

\* the upper case of c given its entry and its run
UpperFrom(c, special, run) ==
    IF special # 0
    THEN SelectSeq(SubSeq(UpperSpecial, 4 * special - 2, 4 * special), IsCodePoint)
    ELSE IF run # 0 THEN <<c + UpperRuns[4 * run] - UpperRuns[4 * run - 3]>>
    ELSE <<c>>

\* str.upper() of one character: a text of one to three characters
UpperOf(c) ==
    IF c < 128 THEN (IF 97 <= c /\ c <= 122 THEN <<c - 32>> ELSE <<c>>)
    ELSE UpperFrom(c, SpecialOf(c), RunOf(c))

\* str.upper()
RECURSIVE Upper(_)
Upper(s) == IF Len(s) = 0 THEN <<>> ELSE UpperOf(s[1]) \o Upper(Tail(s))

\* the upper case of the ASCII letters only, as the C library's tolower
\* and toupper compare
AsciiUpper(s) == [i \in 1..Len(s) |-> IF 97 <= s[i] /\ s[i] <= 122 THEN s[i] - 32 ELSE s[i]]

\* first index at or after i whose character does not satisfy the class
SkipDigits(s, i) ==
    CHOOSE j \in i..(Len(s) + 1) :
        (j = Len(s) + 1 \/ ~IsDigit(s[j])) /\ \A k \in i..(j - 1) : IsDigit(s[k])

SkipSpaces(s, i) ==
    CHOOSE j \in i..(Len(s) + 1) :
        (j = Len(s) + 1 \/ ~IsSpace(s[j])) /\ \A k \in i..(j - 1) : IsSpace(s[k])

SkipNonSpaces(s, i) ==
    CHOOSE j \in i..(Len(s) + 1) :
        (j = Len(s) + 1 \/ IsSpace(s[j])) /\ \A k \in i..(j - 1) : ~IsSpace(s[k])

\* str.lstrip(), str.rstrip() and str.strip()
LStrip(s) ==
    IF Len(s) = 0 \/ ~IsSpace(s[1]) THEN s ELSE SubSeq(s, SkipSpaces(s, 1), Len(s))

RStrip(s) ==
    IF Len(s) = 0 \/ ~IsSpace(s[Len(s)]) THEN s
    ELSE SubSeq(s, 1, CHOOSE j \in 0..Len(s) :
                          (j = 0 \/ ~IsSpace(s[j])) /\ \A k \in (j + 1)..Len(s) : IsSpace(s[k]))

Strip(s) == RStrip(LStrip(s))

\* the text of a number without the whitespace int() and float() skip
NumberText(s) ==
    LET a == CHOOSE j \in 1..(Len(s) + 1) :
                 /\ (j = Len(s) + 1 \/ ~IsNumberSpace(s[j]))
                 /\ \A k \in 1..(j - 1) : IsNumberSpace(s[k])
        b == CHOOSE j \in 0..Len(s) :
                 /\ (j = 0 \/ ~IsNumberSpace(s[j]))
                 /\ \A k \in (j + 1)..Len(s) : IsNumberSpace(s[k])
    IN  SubSeq(s, a, b)

\* digits grouped by single underscores, as int() and float() allow: every
\* underscore stands between two digits
UnderscoresGrouped(s) ==
    \A i \in 1..Len(s) :
        s[i] = 95 => /\ i > 1 /\ IsDigit(s[i - 1])
                     /\ i < Len(s) /\ IsDigit(s[i + 1])

IsUnderscore(c) == c = 95
NotUnderscore(c) == c # 95

\* the values of the digits of a text
DigitVals(s) == [i \in 1..Len(s) |-> DigitVal(s[i])]

\* a sequence of digits without its zeros at the front
NoLeadingZeros(ds) ==
    SubSeq(ds, CHOOSE j \in 1..(Len(ds) + 1) :
                   (j = Len(ds) + 1 \/ ds[j] # 0) /\ \A k \in 1..(j - 1) : ds[k] = 0,
           Len(ds))

\* a sequence of digits without its zeros at the end
NoTrailingZeros(ds) ==
    SubSeq(ds, 1, CHOOSE j \in 0..Len(ds) :
                      (j = 0 \/ ds[j] # 0) /\ \A k \in (j + 1)..Len(ds) : ds[k] = 0)

\* the number written by at most nine digits
RECURSIVE DigitsToNat(_)
DigitsToNat(ds) ==
    IF Len(ds) = 0 THEN 0
    ELSE 10 * DigitsToNat(SubSeq(ds, 1, Len(ds) - 1)) + ds[Len(ds)]

\* the digits of a natural number, none for zero
RECURSIVE NatDigits(_)
NatDigits(n) == IF n = 0 THEN <<>> ELSE Append(NatDigits(n \div 10), n % 10)

\* an int read from a text is the record [neg, digits] of its sign and of
\* its decimal digits without zeros at the front (none for zero); it is a
\* number of the model when it has at most nine digits
IsSmall(n) == Len(n.digits) <= 9

IntValue(n) == IF n.neg THEN -DigitsToNat(n.digits) ELSE DigitsToNat(n.digits)

\* the int as a value of the model: the record itself beyond nine digits
PyInt(n) == IF IsSmall(n) THEN IntValue(n) ELSE n

\* minimum <= n <= maximum, for bounds of at most nine digits
InRange(n, minimum, maximum) ==
    IsSmall(n) /\ minimum <= IntValue(n) /\ IntValue(n) <= maximum

\* n & 0xFF: the digits before the last eight do not reach the result,
\* since 256 divides 10 ** 8
LowByte(n) ==
    LET low == DigitsToNat(SubSeq(n.digits, Max(Len(n.digits) - 7, 1), Len(n.digits))) % 256
    IN  IF n.neg THEN (256 - low) % 256 ELSE low

\* the text t starts with a sign
IsSigned(t) == Len(t) > 0 /\ (t[1] = 45 \/ t[1] = 43)

\* the int of the digits ds, negative after a minus sign unless it is zero
IntOfDigits(minus, ds) == [neg |-> minus /\ ds # <<>>, digits |-> ds]

\* the int written by digits and underscores
UnsignedInt(minus, body) ==
    IF /\ Len(body) > 0
       /\ \A i \in 1..Len(body) : IsDigit(body[i]) \/ body[i] = 95
       /\ UnderscoresGrouped(body)
       /\ Len(SelectSeq(body, NotUnderscore)) <= 4300
    THEN Some(IntOfDigits(minus, NoLeadingZeros(DigitVals(SelectSeq(body, NotUnderscore)))))
    ELSE None

\* the int written by a text without whitespace around it
SignedInt(t) == UnsignedInt(IsSigned(t) /\ t[1] = 45, IF IsSigned(t) THEN Tail(t) ELSE t)

\* int(s): Some(value), or None when Python raises ValueError, as it
\* also does beyond the 4300 digits of sys.get_int_max_str_digits()
ParseInt(s) == SignedInt(NumberText(s))

\* \w : a letter or a digit of any script, or the underscore
IsWord(c) ==
    IF c < 128
    THEN (48 <= c /\ c <= 57) \/ (65 <= c /\ c <= 90) \/ (97 <= c /\ c <= 122) \/ c = 95
    ELSE \E i \in 1..(Len(WordRanges) \div 2) :
             WordRanges[2 * i - 1] <= c /\ c <= WordRanges[2 * i]

(***************************************************************************)
(* Natural numbers of any size, for the arithmetic of IEEE 754 doubles: a  *)
(* number is the sequence of its digits in base 2 ** 15, the lowest        *)
(* first, without zeros at the top (so that zero is the empty sequence).   *)
(***************************************************************************)
Base == 2 ^ 15

RECURSIVE BigOf(_)
BigOf(n) == IF n = 0 THEN <<>> ELSE <<n % Base>> \o BigOf(n \div Base)

BigTrim(a) ==
    SubSeq(a, 1, CHOOSE j \in 0..Len(a) :
                     (j = 0 \/ a[j] # 0) /\ \A k \in (j + 1)..Len(a) : a[k] = 0)

Limb(a, i) == IF i <= Len(a) THEN a[i] ELSE 0

\* the carry into the digit i of a + b
BigCarry(a, b, i) ==
    \E j \in 1..(i - 1) :
        /\ Limb(a, j) + Limb(b, j) >= Base
        /\ \A k \in (j + 1)..(i - 1) : Limb(a, k) + Limb(b, k) = Base - 1

\* a + b
BigAdd(a, b) ==
    BigTrim([i \in 1..(Max(Len(a), Len(b)) + 1) |->
                (Limb(a, i) + Limb(b, i) + (IF BigCarry(a, b, i) THEN 1 ELSE 0)) % Base])

\* the borrow from the digit i of a - b
BigBorrow(a, b, i) ==
    \E j \in 1..(i - 1) :
        /\ a[j] < Limb(b, j)
        /\ \A k \in (j + 1)..(i - 1) : a[k] = Limb(b, k)

\* a - b for a >= b
BigSub(a, b) ==
    BigTrim([i \in 1..Len(a) |->
                (a[i] - Limb(b, i) - (IF BigBorrow(a, b, i) THEN 1 ELSE 0) + Base) % Base])

\* a < b
BigLt(a, b) ==
    \/ Len(a) < Len(b)
    \/ /\ Len(a) = Len(b)
       /\ \E i \in 1..Len(a) : a[i] < b[i] /\ \A j \in (i + 1)..Len(a) : a[j] = b[j]

BigLe(a, b) == a = b \/ BigLt(a, b)

\* a * k for 0 <= k < Base: the low and the high halves of the products of
\* the digits
BigScale(a, k) ==
    BigAdd(SubSeq([i \in 1..Len(a) |-> (a[i] * k) % Base], 1, Len(a)),
           <<0>> \o [i \in 1..Len(a) |-> (a[i] * k) \div Base])

\* a * k + c for 0 <= k < Base and 0 <= c < Base
BigMulAdd(a, k, c) == BigAdd(BigScale(a, k), BigOf(c))

\* a * 2 ** k
BigShl(a, k) ==
    IF a = <<>> THEN <<>>
    ELSE [i \in 1..(k \div 15) |-> 0] \o BigScale(a, 2 ^ (k % 15))

\* a \div 2
BigHalf(a) ==
    BigTrim([i \in 1..Len(a) |-> (a[i] \div 2) + (Limb(a, i + 1) % 2) * (Base \div 2)])

\* the number of binary digits of a
BigBitLen(a) ==
    IF a = <<>> THEN 0
    ELSE 15 * (Len(a) - 1)
             + (CHOOSE k \in 1..15 : 2 ^ (k - 1) <= a[Len(a)] /\ a[Len(a)] < 2 ^ k)

BigIsOdd(a) == a # <<>> /\ a[1] % 2 = 1

\* a times the digits lo..hi of b, at their place
RECURSIVE BigMulRange(_, _, _, _)
BigMulRange(a, b, lo, hi) ==
    IF lo = hi THEN [i \in 1..(lo - 1) |-> 0] \o BigScale(a, b[lo])
    ELSE BigAdd(BigMulRange(a, b, lo, (lo + hi) \div 2),
                BigMulRange(a, b, ((lo + hi) \div 2) + 1, hi))

\* a * b
BigMul(a, b) == IF a = <<>> \/ b = <<>> THEN <<>> ELSE BigTrim(BigMulRange(a, b, 1, Len(b)))

BigSquare(a) == BigMul(a, a)

\* 10 ** k
RECURSIVE BigPow10(_)
BigPow10(k) ==
    IF k <= 9 THEN BigOf(10 ^ k)
    ELSE IF k % 2 = 0 THEN BigSquare(BigPow10(k \div 2))
    ELSE BigScale(BigPow10(k - 1), 10)

\* the number written by the decimal digits ds[lo..hi]
RECURSIVE BigOfDigits(_, _, _)
BigOfDigits(ds, lo, hi) ==
    IF hi - lo < 9 THEN BigOf(DigitsToNat(SubSeq(ds, lo, hi)))
    ELSE BigAdd(BigMul(BigOfDigits(ds, lo, (lo + hi) \div 2), BigPow10(hi - ((lo + hi) \div 2))),
                BigOfDigits(ds, ((lo + hi) \div 2) + 1, hi))

\* one step of the long division of n by d: t is d * 2 ** i for the binary
\* digit i of the quotient, q the digits above it and r what is left of n
BigDivDigit(st, fits) ==
    [q |-> BigMulAdd(st.q, 2, IF fits THEN 1 ELSE 0),
     r |-> BigSub(st.r, IF fits THEN st.t ELSE <<>>), t |-> BigHalf(st.t), i |-> st.i - 1]

BigDivStep(st) == BigDivDigit(st, BigLe(st.t, st.r))

\* up to n steps for the binary digits from i down
RECURSIVE BigDivSome(_, _)
BigDivSome(st, n) == IF n = 0 \/ st.i < 0 THEN st ELSE BigDivSome(BigDivStep(st), n - 1)

\* the steps for the binary digits i down to 0, sixteen at a time
RECURSIVE BigDivSteps(_)
BigDivSteps(st) == IF st.i < 0 THEN st ELSE BigDivSteps(BigDivSome(st, 16))

\* [q, r] with n = q * d + r and r < d, for d > 0
BigDivFrom(n, d, i) == BigDivSteps([q |-> <<>>, r |-> n, t |-> BigShl(d, i), i |-> i])

BigDivMod(n, d) == BigDivFrom(n, d, Max(BigBitLen(n) - BigBitLen(d), 0))

(***************************************************************************)
(* IEEE 754 binary64 arithmetic, rounding to nearest, ties to even.  A     *)
(* finite double is [kind |-> "num", m, e] with the value m * 2 ** e, m a  *)
(* natural number below 2 ** 53 and e >= -1074.                            *)
(***************************************************************************)
\* floor(log2(n / d))
FloorLog2From(n, d, bl) ==
    IF BigLe(BigShl(d, Max(bl, 0)), BigShl(n, Max(-bl, 0))) THEN bl ELSE bl - 1

FloorLog2(n, d) == FloorLog2From(n, d, BigBitLen(n) - BigBitLen(d))

\* the quotient of a division, rounded to the nearest integer, ties to even
RoundedUp(q, twice, d) ==
    IF BigLt(d, twice) \/ (d = twice /\ BigIsOdd(q)) THEN BigAdd(q, <<1>>) ELSE q

RoundedQuotient(qr, d) == RoundedUp(qr.q, BigShl(qr.r, 1), d)

\* m * 2 ** e as a double: infinite from 2 ** 1024
Binary64(m, e) ==
    IF BigBitLen(m) + e > 1024 THEN [kind |-> "inf", m |-> <<>>, e |-> 0]
    ELSE IF BigBitLen(m) = 54 THEN [kind |-> "num", m |-> BigHalf(m), e |-> e + 1]
    ELSE [kind |-> "num", m |-> m, e |-> IF m = <<>> THEN 0 ELSE e]

\* the quotient n / d scaled to the unit 2 ** e
NearestQuotient(n, d) == RoundedQuotient(BigDivMod(n, d), d)

ScaledQuotient(n, d, s) == NearestQuotient(BigShl(n, Max(s, 0)), BigShl(d, Max(-s, 0)))

\* the double nearest to n / d * 2 ** e2, for n > 0 and d > 0: its unit is
\* 2 ** e with e the exponent that leaves 53 binary digits, at least -1074
RoundRatioTo(n, d, e2, e) == Binary64(ScaledQuotient(n, d, e2 - e), e)

RoundRatio(n, d, e2) == RoundRatioTo(n, d, e2, Max(FloorLog2(n, d) + e2 - 52, -1074))

\* the double nearest to the decimal 0.d1 d2 ... dn * 10 ** point
DecimalToBinary(ds, point) ==
    RoundRatio(BigMul(BigOfDigits(ds, 1, Len(ds)), BigPow10(Max(point - Len(ds), 0))),
               BigPow10(Max(Len(ds) - point, 0)), 0)

\* the state of the digit generation of Steele and White and of Burger and
\* Dybvig: the value is r / s * 10 ** k, the numbers from (r - mm) / s to
\* (r + mp) / s round to the double, both ends included when its m is even
Generation(r, s, mp, mm, k, even) ==
    [r |-> r, s |-> s, mp |-> mp, mm |-> mm, k |-> k, even |-> even]

\* r + mp reaches s: the value is not below 10 ** k
TooHigh(g) ==
    IF g.even THEN BigLe(g.s, BigAdd(g.r, g.mp)) ELSE BigLt(g.s, BigAdd(g.r, g.mp))

TimesTen(g) ==
    [g EXCEPT !.r = BigScale(@, 10), !.mp = BigScale(@, 10),
              !.mm = BigScale(@, 10)]

\* the start for m * 2 ** e, m with 53 binary digits unless e = -1074
StartFrom(m, e, u) ==
    IF e >= 0
    THEN Generation(BigShl(m, e + u), BigOf(2 * u), BigShl(BigOf(u), e), BigShl(<<1>>, e),
                    0, ~BigIsOdd(m))
    ELSE Generation(BigShl(m, u), BigShl(BigOf(2 * u), -e), BigOf(u), <<1>>, 0, ~BigIsOdd(m))

StartGeneration(m, e) ==
    StartFrom(m, e, IF m = BigShl(<<1>>, 52) /\ e > -1074 THEN 2 ELSE 1)

\* an estimate of k from the number of binary digits, then the exact k: the
\* least with value < 10 ** k
ScaleWith(g, k, up, down) ==
    [g EXCEPT !.s = BigMul(@, down), !.r = BigMul(@, up), !.mp = BigMul(@, up),
              !.mm = BigMul(@, up), !.k = k]

ScaleBy(g, k) == ScaleWith(g, k, BigPow10(Max(-k, 0)), BigPow10(Max(k, 0)))

RECURSIVE ScaleUp(_)
ScaleUp(g) ==
    IF TooHigh(g) THEN ScaleUp([g EXCEPT !.s = BigScale(@, 10), !.k = @ + 1]) ELSE g

RECURSIVE ScaleDown(_)
ScaleDownTo(g, h) == IF TooHigh(h) THEN g ELSE ScaleDown([h EXCEPT !.k = @ - 1])

ScaleDown(g) == ScaleDownTo(g, TimesTen(g))

\* the quotient of r by s, below ten
RECURSIVE SmallQuotient(_, _)
SmallQuotient(r, s) == IF BigLt(r, s) THEN 0 ELSE 1 + SmallQuotient(BigSub(r, s), s)

RECURSIVE SmallRemainder(_, _)
SmallRemainder(r, s) == IF BigLt(r, s) THEN r ELSE SmallRemainder(BigSub(r, s), s)

\* the digits from the state h, whose r is below s after the digit d
RECURSIVE GenerateFrom(_, _)
LastDigit(h, d, low, high, twice) ==
    IF low /\ ~high THEN <<d>>
    ELSE IF high /\ ~low THEN <<d + 1>>
    ELSE IF BigLt(twice, h.s) \/ (twice = h.s /\ d % 2 = 0) THEN <<d>>
    ELSE <<d + 1>>

NextDigits(h, d, low, high) ==
    IF ~low /\ ~high
    THEN <<d>> \o GenerateFrom(TimesTen(h), SmallQuotient(BigScale(h.r, 10), h.s))
    ELSE LastDigit(h, d, low, high, BigShl(h.r, 1))

DigitsAfter(h, d) ==
    NextDigits(h, d, IF h.even THEN BigLe(h.r, h.mm) ELSE BigLt(h.r, h.mm), TooHigh(h))

\* the digits after one step: g is the state before the step, times ten
GenerateFrom(g, d) == DigitsAfter([g EXCEPT !.r = SmallRemainder(g.r, g.s)], d)

Generate(g) == GenerateFrom(TimesTen(g), SmallQuotient(BigScale(g.r, 10), g.s))

ShortestFrom(g) == [digits |-> Generate(g), point |-> g.k]

\* the shortest decimal that rounds to the double m * 2 ** e, the nearest
\* to it of that length: [digits, point] for 0.d1 d2 ... dn * 10 ** point
ShortestDecimal(m, e) ==
    ShortestFrom(ScaleDown(ScaleUp(ScaleBy(StartGeneration(m, e),
                                           ((BigBitLen(m) + e - 1) * 30103) \div 100000))))

(***************************************************************************)
(* Exceptions.  A raised exception is the record [type, code, message]:    *)
(* the name of its class, the code of an SCPIError (0 for the others) and  *)
(* its message.                                                            *)
(***************************************************************************)
SCPIError(code, message) == [type |-> "SCPIError", code |-> code, message |-> message]
ValueError(message) == [type |-> "ValueError", code |-> 0, message |-> message]
AttributeError(message) == [type |-> "AttributeError", code |-> 0, message |-> message]
OverflowError(message) == [type |-> "OverflowError", code |-> 0, message |-> message]
ZeroDivisionError(message) ==
    [type |-> "ZeroDivisionError", code |-> 0, message |-> message]

\* the built-in exception classes that derive from BaseException and not
\* from Exception
BaseExceptions == {"BaseException", "BaseExceptionGroup", "GeneratorExit",
                   "KeyboardInterrupt", "SystemExit"}

\* isinstance(e, Exception): what `except Exception` catches.  SCPIError
\* derives from Exception, as every class of exception does that is not
\* one of the above
IsException(e) == e.type \notin BaseExceptions

(***************************************************************************)
(* Floating-point values.  A float is the record [kind, neg, digits,       *)
(* point]: kind "num" with the value (-1) ** neg * 0.d1 d2 ... dn *        *)
(* 10 ** point, where digits is the sequence d1 ... dn of the shortest     *)
(* decimal that rounds to the double (the digits repr() prints; none for   *)
(* zero, which keeps its sign), or kind "nan", "inf", "ninf".              *)
(***************************************************************************)
Float(neg, digits, point) == [kind |-> "num", neg |-> neg, digits |-> digits, point |-> point]
NaN == [kind |-> "nan", neg |-> FALSE, digits |-> <<>>, point |-> 0]
PosInf == [kind |-> "inf", neg |-> FALSE, digits |-> <<>>, point |-> 0]
NegInf == [kind |-> "ninf", neg |-> TRUE, digits |-> <<>>, point |-> 0]

Infinity(neg) == IF neg THEN NegInf ELSE PosInf
Zero(neg) == Float(neg, <<>>, 0)
IsZero(x) == x.kind = "num" /\ x.digits = <<>>

\* the float written by the digits ds with the decimal point after the
\* first `point` of them, for a decimal that a double holds
Decimal(neg, ds, point) ==
    IF NoLeadingZeros(ds) = <<>> THEN Zero(neg)
    ELSE Float(neg, NoTrailingZeros(NoLeadingZeros(ds)),
               point - (Len(ds) - Len(NoLeadingZeros(ds))))

\* the float of a number of thousandths
Num(milli) ==
    IF milli < 0 THEN Decimal(TRUE, NatDigits(-milli), Len(NatDigits(-milli)) - 3)
    ELSE Decimal(FALSE, NatDigits(milli), Len(NatDigits(milli)) - 3)

\* ds < es for the digits after the decimal point of two numbers
DigitsLt(ds, es) ==
    \E i \in 1..Len(es) :
        /\ \A j \in 1..(i - 1) : j <= Len(ds) /\ ds[j] = es[j]
        /\ (i > Len(ds) \/ ds[i] < es[i])

\* |a| < |b| for finite a and b
MagnitudeLt(a, b) ==
    IF b.digits = <<>> THEN FALSE
    ELSE IF a.digits = <<>> THEN TRUE
    ELSE IF a.point # b.point THEN a.point < b.point
    ELSE DigitsLt(a.digits, b.digits)

\* a < b on floats: every comparison with NaN is false
FLt(a, b) ==
    /\ a.kind # "nan" /\ b.kind # "nan"
    /\ \/ a.kind = "ninf" /\ b.kind # "ninf"
       \/ a.kind = "num" /\ b.kind = "inf"
       \/ /\ a.kind = "num" /\ b.kind = "num"
          /\ IF a.neg # b.neg THEN a.neg /\ (a.digits # <<>> \/ b.digits # <<>>)
             ELSE IF a.neg THEN MagnitudeLt(b, a)
             ELSE MagnitudeLt(a, b)

\* a <= b on floats
FLe(a, b) ==
    /\ a.kind # "nan" /\ b.kind # "nan"
    /\ (a = b \/ (IsZero(a) /\ IsZero(b)) \/ FLt(a, b))

\* the float of a double
FromShortest(neg, d) == Float(neg, d.digits, d.point)

FromBinary(neg, b) ==
    IF b.kind = "inf" THEN Infinity(neg)
    ELSE IF b.m = <<>> THEN Zero(neg)
    ELSE FromShortest(neg, ShortestDecimal(b.m, b.e))

\* the double of a finite float other than zero
ToBinary(x) == DecimalToBinary(x.digits, x.point)

\* the float nearest to the decimal 0.d1 d2 ... dn * 10 ** point, d1 and dn
\* other than zero.  A decimal of at most 15 digits between the smallest
\* and the largest normal double is the shortest that rounds to its double.
\* Beyond 800 digits only the presence of a further digit matters to the
\* rounding: the middle of two doubles has fewer digits.
RoundDecimal(neg, ds, point) ==
    IF Len(ds) <= 15 /\ -290 <= point /\ point <= 300 THEN Float(neg, ds, point)
    ELSE IF point > 310 THEN Infinity(neg)
    ELSE IF point < -330 THEN Zero(neg)
    ELSE FromBinary(neg, DecimalToBinary(IF Len(ds) > 800 THEN Append(SubSeq(ds, 1, 800), 1)
                                         ELSE ds, point))

\* the exponent written by the digits ds: beyond six digits every exponent
\* gives an infinity or a zero
Exponent(ds) ==
    IF Len(NoLeadingZeros(ds)) > 6 THEN 1000000 ELSE DigitsToNat(NoLeadingZeros(ds))

\* the exponent written from the position p to the end of the text, below
\* zero after a minus sign: Some(exponent), or None without digits or with
\* something after them
ExponentDigits(u, minus, p) ==
    IF p > Len(u) \/ SkipDigits(u, p) # Len(u) + 1 THEN None
    ELSE Some((IF minus THEN -1 ELSE 1) * Exponent(DigitVals(SubSeq(u, p, Len(u)))))

\* the part e [sign] digits at the position p: Some(exponent), Some(0) at
\* the end of the text
ExponentPart(u, p) ==
    IF p = Len(u) + 1 THEN Some(0)
    ELSE IF u[p] # 101 /\ u[p] # 69 THEN None
    ELSE ExponentDigits(u, p + 1 <= Len(u) /\ u[p + 1] = 45,
                        IF p + 1 <= Len(u) /\ (u[p + 1] = 43 \/ u[p + 1] = 45) THEN p + 2
                        ELSE p + 1)

\* the float of the digits ds without zeros at the front, the decimal
\* point after the first `point` of them
DecimalFrom(neg, ds, point) ==
    IF ds = <<>> THEN Zero(neg) ELSE RoundDecimal(neg, NoTrailingZeros(ds), point)

\* the float of the digits ds before and after the decimal point, `whole`
\* of them before it, times ten to the exponent
DecimalValue(neg, ds, whole, exponent) ==
    IF Len(ds) = 0 \/ exponent = None THEN None
    ELSE Some(DecimalFrom(neg, NoLeadingZeros(ds),
                          whole - (Len(ds) - Len(NoLeadingZeros(ds))) + Head(exponent)))

\* the mantissa u[1..p1-1] [. u[p1+1..p2-1]] and the exponent from p2
DecimalParts(neg, u, p1, p2) ==
    DecimalValue(neg, DigitVals(SubSeq(u, 1, p1 - 1) \o SubSeq(u, p1 + 1, p2 - 1)), p1 - 1,
                 ExponentPart(u, p2))

\* the digits before the decimal point end before the position p1
DecimalFromPoint(neg, u, p1) ==
    DecimalParts(neg, u, p1, IF p1 <= Len(u) /\ u[p1] = 46 THEN SkipDigits(u, p1 + 1) ELSE p1)

\* digits [. digits] [e [sign] digits] or . digits [e [sign] digits]
ParseDecimal(neg, u) == DecimalFromPoint(neg, u, SkipDigits(u, 1))

\* the float written by a text without a sign
UnsignedFloat(neg, body) ==
    IF AsciiUpper(body) = Text(<<"N", "A", "N">>) THEN Some(NaN)
    ELSE IF AsciiUpper(body) \in {Text(<<"I", "N", "F">>),
                                  Text(<<"I", "N", "F", "I", "N", "I", "T", "Y">>)}
    THEN Some(Infinity(neg))
    ELSE IF ~UnderscoresGrouped(body) THEN None
    ELSE ParseDecimal(neg, SelectSeq(body, NotUnderscore))

\* the float written by a text without whitespace around it
SignedFloat(t) == UnsignedFloat(IsSigned(t) /\ t[1] = 45, IF IsSigned(t) THEN Tail(t) ELSE t)

\* float(s): Some(value), or None when Python raises ValueError
ParseFloat(s) == SignedFloat(NumberText(s))

\* -x
FNeg(x) ==
    IF x.kind = "num" THEN [x EXCEPT !.neg = ~@]
    ELSE IF x.kind = "inf" THEN NegInf
    ELSE IF x.kind = "ninf" THEN PosInf
    ELSE x

\* a float that a double holds exactly, of at most nine digits
IsExact(x) ==
    /\ x.kind = "num"
    /\ Len(x.digits) <= 9
    /\ \/ x.point >= Len(x.digits) /\ x.point <= 15
       \/ /\ x.point < Len(x.digits) /\ Len(x.digits) - x.point <= 9
          /\ DigitsToNat(x.digits) % (5 ^ (Len(x.digits) - x.point)) = 0

\* the product and the quotient of the doubles x and y
MulBinary(neg, x, y) == FromBinary(neg, RoundRatio(BigMul(x.m, y.m), <<1>>, x.e + y.e))

DivBinary(neg, x, y) == FromBinary(neg, RoundRatio(x.m, y.m, x.e - y.e))

\* a * b on floats.  The product of two doubles is the double nearest to
\* the exact product; a product of at most 15 digits prints as it is.
FMul(a, b) ==
    IF a.kind = "nan" \/ b.kind = "nan" THEN NaN
    ELSE IF a.kind # "num" \/ b.kind # "num"
    THEN (IF IsZero(a) \/ IsZero(b) THEN NaN ELSE Infinity(a.neg # b.neg))
    ELSE IF IsZero(a) \/ IsZero(b) THEN Zero(a.neg # b.neg)
    ELSE IF IsExact(a) /\ IsExact(b) /\ Len(a.digits) + Len(b.digits) <= 9
    THEN Decimal(a.neg # b.neg, NatDigits(DigitsToNat(a.digits) * DigitsToNat(b.digits)),
                 Len(NatDigits(DigitsToNat(a.digits) * DigitsToNat(b.digits)))
                     + (a.point - Len(a.digits)) + (b.point - Len(b.digits)))
    ELSE MulBinary(a.neg # b.neg, ToBinary(a), ToBinary(b))

\* a / b on floats (IEEE 754).  The quotient of two doubles is the double
\* nearest to the exact quotient.
FDiv(a, b) ==
    IF a.kind = "nan" \/ b.kind = "nan" THEN NaN
    ELSE IF a.kind # "num" THEN (IF b.kind # "num" THEN NaN ELSE Infinity(a.neg # b.neg))
    ELSE IF b.kind # "num" THEN Zero(a.neg # b.neg)
    ELSE IF IsZero(b) THEN (IF IsZero(a) THEN NaN ELSE Infinity(a.neg # b.neg))
    ELSE IF IsZero(a) THEN Zero(a.neg # b.neg)
    ELSE IF IsExact(a) /\ b.digits = <<1>> /\ 1 <= b.point /\ b.point <= 16
    THEN Float(a.neg # b.neg, a.digits, a.point - (b.point - 1))
    ELSE DivBinary(a.neg # b.neg, ToBinary(a), ToBinary(b))

RECURSIVE DigitsStr(_)
DigitsStr(ds) == IF Len(ds) = 0 THEN "" ELSE DigitChars[ds[1] + 1] \o DigitsStr(Tail(ds))

RECURSIVE Zeros(_)
Zeros(n) == IF n <= 0 THEN "" ELSE "0" \o Zeros(n - 1)

\* repr() of a positive double: the exponent form from 1e16 and below 1e-4
Repr(ds, point) ==
    IF point <= -4 \/ point > 16
    THEN DigitsStr(<<ds[1]>>) \o (IF Len(ds) > 1 THEN "." \o DigitsStr(Tail(ds)) ELSE "")
             \o (IF point < 1 THEN "e-" ELSE "e+")
             \o (IF point - 1 < 10 /\ 1 - point < 10 THEN "0" ELSE "")
             \o NatToStr(IF point < 1 THEN 1 - point ELSE point - 1)
    ELSE IF point <= 0 THEN "0." \o Zeros(-point) \o DigitsStr(ds)
    ELSE IF point >= Len(ds) THEN DigitsStr(ds) \o Zeros(point - Len(ds)) \o ".0"
    ELSE DigitsStr(SubSeq(ds, 1, point)) \o "." \o DigitsStr(SubSeq(ds, point + 1, Len(ds)))

\* str(x) of a float
FloatStr(x) ==
    CASE x.kind = "nan" -> "nan"
      [] x.kind = "inf" -> "inf"
      [] x.kind = "ninf" -> "-inf"
      [] x.kind = "num" /\ x.digits = <<>> -> IF x.neg THEN "-0.0" ELSE "0.0"
      [] x.kind = "num" /\ x.digits # <<>> ->
             (IF x.neg THEN "-" ELSE "") \o Repr(x.digits, x.point)

(***************************************************************************)
(* Logarithms and powers.  math.log10(x), math.pow(10.0, y) and 10 ** y    *)
(* return what the C library's log10() and pow() return, which is within   *)
(* one unit in the last place of the exact value and not always the double *)
(* nearest to it.  The model computes them as the library does (glibc 2.36 *)
(* for x86-64, the functions built with fused multiply-add): with the      *)
(* library's tables and polynomials, operation by operation on doubles.  A *)
(* double with its sign is the record [kind, neg, m, e] of the value       *)
(* (-1) ** neg * m * 2 ** e, or of an infinity for the kind "inf".         *)
(***************************************************************************)
Dbl(neg, m, e) == [kind |-> "num", neg |-> neg, m |-> m, e |-> e]

\* a double with its sign, from the double b
Signed(neg, b) == [kind |-> b.kind, neg |-> neg, m |-> b.m, e |-> b.e]

\* a \div Base ** k
BigDrop(a, k) == SubSeq(a, k + 1, Len(a))

\* a \div 2 ** k
BigShr(a, k) == BigDrop(BigScale(a, 2 ^ (15 - (k % 15))), (k \div 15) + 1)

\* the double nearest to m * 2 ** (e - s), ties to even, in the unit 2 ** e:
\* q is m \div 2 ** s
RoundBinaryFrom(m, q, s, e) ==
    Binary64(RoundedUp(q, BigShl(BigSub(m, BigShl(q, s)), 1), BigShl(<<1>>, s)), e)

\* the double nearest to m * 2 ** e, which leaves the last s binary digits
\* of m out
RoundBinaryBy(m, e, s) ==
    IF s <= 0 THEN Binary64(BigShl(m, -s), e + s)
    ELSE RoundBinaryFrom(m, BigShr(m, s), s, e + s)

\* the double nearest to m * 2 ** e for m > 0: its unit is the one that
\* leaves 53 binary digits, at least 2 ** -1074
RoundBinary(m, e) == RoundBinaryBy(m, e, Max(BigBitLen(m) + e - 53, -1074) - e)

\* the double nearest to (-1) ** neg * m * 2 ** e
SignedRound(neg, m, e) ==
    IF m = <<>> THEN Dbl(neg, <<>>, 0) ELSE Signed(neg, RoundBinary(m, e))

\* the exact product of a and b, not rounded
ExactMul(a, b) == [neg |-> a.neg # b.neg, m |-> BigMul(a.m, b.m), e |-> a.e + b.e]

\* the sign and the size of the sum of (-1) ** pn * pm and (-1) ** cn * cm:
\* a sum of zero is +0 unless both are below zero
SumParts(pn, pm, cn, cm) ==
    IF pn = cn THEN [neg |-> pn, m |-> BigAdd(pm, cm)]
    ELSE IF pm = cm THEN [neg |-> FALSE, m |-> <<>>]
    ELSE IF BigLt(cm, pm) THEN [neg |-> pn, m |-> BigSub(pm, cm)]
    ELSE [neg |-> cn, m |-> BigSub(cm, pm)]

\* the double nearest to s.m * 2 ** e with the sign of s
RoundSum(s, e) == SignedRound(s.neg, s.m, e)

\* p + c rounded, for the exact p and the double c, both in the unit 2 ** e
FmaAt(p, c, e) ==
    RoundSum(SumParts(p.neg, BigShl(p.m, p.e - e), c.neg, BigShl(c.m, c.e - e)), e)

\* fma(a, b, c): a * b + c, rounded once
SignedFma(a, b, c) == FmaAt(ExactMul(a, b), c, IF a.e + b.e <= c.e THEN a.e + b.e ELSE c.e)

\* -a
SignedNeg(a) == [a EXCEPT !.neg = ~@]

\* the double of an integer
SignedOfInt(n) == Dbl(n < 0, BigOf(IF n < 0 THEN -n ELSE n), 0)

\* the float of a double with its sign
FromSigned(x) == FromBinary(x.neg, x)

\* x * 2 ** q, for a result that is a normal double
Ldexp(x, q) == [x EXCEPT !.e = @ + q]

\* the exponent of a double x other than zero: |x| is from 2 ** ExponentOf(x)
\* to 2 ** (ExponentOf(x) + 1)
ExponentOf(x) == BigBitLen(x.m) + x.e - 1

\* the 53 binary digits of a double other than zero: those of a number
\* below 2 ** -1022 with zeros after them
Mantissa(m) == BigShl(m, 53 - BigBitLen(m))

\* the integer of at most two digits of Base
BigNat(a) == Limb(a, 1) + Base * Limb(a, 2)

\* the integer of a double that is one, below 2 ** 30
IntOf(a) ==
    (IF a.neg THEN -1 ELSE 1) * BigNat(IF a.e >= 0 THEN BigShl(a.m, a.e) ELSE BigShr(a.m, -a.e))

\* the only element of a set of one
Only(S) == CHOOSE x \in S : TRUE

\* the constants of log() and log10(): ln(2) in two parts, the polynomial A
\* for the logarithm near a point of the table, the polynomial B for the
\* logarithm near 1, and 1 / ln(10) and log10(2) in two parts
LogData ==
    ("Ln2hi" :> Dbl(FALSE, <<14336, 32244, 14603, 177>>, -53))
        @@ ("Ln2lo" :> Dbl(FALSE, <<26416, 10126, 19806, 247>>, -97))
        @@ ("Zero" :> Dbl(FALSE, <<>>, 0))
        @@ ("One" :> Dbl(FALSE, <<0, 0, 0, 128>>, -52))
        @@ ("MinusOne" :> Dbl(TRUE, <<0, 0, 0, 128>>, -52))
        @@ ("TwoTo27" :> Dbl(FALSE, <<0, 0, 0, 128>>, -25))
        @@ ("A0" :> Dbl(TRUE, <<1, 0, 0, 128>>, -53))
        @@ ("A1" :> Dbl(FALSE, <<12379, 10914, 21845, 170>>, -54))
        @@ ("A2" :> Dbl(TRUE, <<17808, 32726, 32767, 255>>, -55))
        @@ ("A3" :> Dbl(FALSE, <<273, 18914, 26316, 204>>, -55))
        @@ ("A4" :> Dbl(TRUE, <<18591, 18957, 21975, 170>>, -55))
        @@ ("B0" :> Dbl(TRUE, <<0, 0, 0, 128>>, -53))
        @@ ("B1" :> Dbl(FALSE, <<21879, 10922, 21845, 170>>, -54))
        @@ ("B2" :> Dbl(TRUE, <<32203, 32767, 32767, 255>>, -55))
        @@ ("B3" :> Dbl(FALSE, <<23820, 13099, 26214, 204>>, -55))
        @@ ("B4" :> Dbl(TRUE, <<17831, 10958, 21845, 170>>, -55))
        @@ ("B5" :> Dbl(FALSE, <<24112, 18057, 9362, 146>>, -55))
        @@ ("B6" :> Dbl(TRUE, <<15717, 18564, 32766, 255>>, -56))
        @@ ("B7" :> Dbl(FALSE, <<22218, 20565, 17936, 227>>, -56))
        @@ ("B8" :> Dbl(TRUE, <<26879, 1888, 26541, 204>>, -56))
        @@ ("B9" :> Dbl(FALSE, <<20613, 28511, 1547, 188>>, -56))
        @@ ("B10" :> Dbl(TRUE, <<17869, 27554, 18509, 170>>, -56))
        @@ ("ivln10" :> Dbl(FALSE, <<25870, 10829, 11756, 222>>, -54))
        @@ ("log10_2lo" :> Dbl(FALSE, <<11062, 9186, 31692, 207>>, -94))
        @@ ("log10_2hi" :> Dbl(FALSE, <<24576, 8510, 4173, 154>>, -54))

\* the table of log(): for each of the 128 intervals from 0.6875 to 1.375,
\* 1 / c for a point c of the interval, and ln(c)
LogTab ==
    <<
      <<Dbl(FALSE, <<24223, 1985, 21443, 185>>, -52),
        Dbl(TRUE, <<4096, 29645, 12797, 190>>, -54)>>,
      <<Dbl(FALSE, <<26911, 21593, 19937, 184>>, -52),
        Dbl(TRUE, <<0, 1050, 16315, 187>>, -54)>>,
      <<Dbl(FALSE, <<13728, 4597, 18816, 183>>, -52),
        Dbl(TRUE, <<24576, 9891, 20364, 184>>, -54)>>,
      <<Dbl(FALSE, <<3197, 15911, 18072, 182>>, -52),
        Dbl(TRUE, <<30720, 28752, 24940, 181>>, -54)>>,
      <<Dbl(FALSE, <<13521, 6027, 17700, 181>>, -52),
        Dbl(TRUE, <<30720, 8448, 30038, 178>>, -54)>>,
      <<Dbl(FALSE, <<3258, 26206, 17692, 180>>, -52),
        Dbl(TRUE, <<0, 27696, 2881, 176>>, -54)>>,
      <<Dbl(FALSE, <<16931, 12356, 18044, 179>>, -52),
        Dbl(TRUE, <<4096, 3361, 9002, 173>>, -54)>>,
      <<Dbl(FALSE, <<7897, 13130, 18750, 178>>, -52),
        Dbl(TRUE, <<20480, 11270, 15629, 170>>, -54)>>,
      <<Dbl(FALSE, <<9412, 21790, 19802, 177>>, -52),
        Dbl(TRUE, <<16384, 1750, 22751, 167>>, -54)>>,
      <<Dbl(FALSE, <<23572, 22331, 21197, 176>>, -52),
        Dbl(TRUE, <<20480, 31568, 30367, 164>>, -54)>>,
      <<Dbl(FALSE, <<23628, 9612, 22929, 175>>, -52),
        Dbl(TRUE, <<10240, 29459, 5704, 162>>, -54)>>,
      <<Dbl(FALSE, <<11343, 27426, 24990, 174>>, -52),
        Dbl(TRUE, <<14336, 29537, 14288, 159>>, -54)>>,
      <<Dbl(FALSE, <<4318, 5815, 27379, 173>>, -52),
        Dbl(TRUE, <<28672, 2334, 23353, 156>>, -54)>>,
      <<Dbl(FALSE, <<6776, 26034, 30087, 172>>, -52),
        Dbl(TRUE, <<8192, 12155, 120, 154>>, -54)>>,
      <<Dbl(FALSE, <<22151, 9356, 344, 172>>, -52),
        Dbl(TRUE, <<0, 24205, 10123, 151>>, -54)>>,
      <<Dbl(FALSE, <<27603, 7630, 3679, 171>>, -52),
        Dbl(TRUE, <<24576, 28769, 20588, 148>>, -54)>>,
      <<Dbl(FALSE, <<32659, 17742, 7319, 170>>, -52),
        Dbl(TRUE, <<2048, 6581, 31510, 145>>, -54)>>,
      <<Dbl(FALSE, <<17795, 1036, 11261, 169>>, -52),
        Dbl(TRUE, <<4096, 21071, 10116, 143>>, -54)>>,
      <<Dbl(FALSE, <<15839, 14181, 15499, 168>>, -52),
        Dbl(TRUE, <<30720, 22161, 21940, 140>>, -54)>>,
      <<Dbl(FALSE, <<24279, 3689, 20029, 167>>, -52),
        Dbl(TRUE, <<30720, 13683, 1438, 138>>, -54)>>,
      <<Dbl(FALSE, <<10304, 8124, 24847, 166>>, -52),
        Dbl(TRUE, <<6144, 10719, 14146, 135>>, -54)>>,
      <<Dbl(FALSE, <<9160, 241, 29947, 165>>, -52),
        Dbl(TRUE, <<4096, 12726, 27284, 132>>, -54)>>,
      <<Dbl(FALSE, <<9610, 1984, 2559, 165>>, -52),
        Dbl(TRUE, <<14336, 9415, 8089, 130>>, -54)>>,
      <<Dbl(FALSE, <<1076, 18857, 8212, 164>>, -52),
        Dbl(TRUE, <<28672, 2829, 11401, 255>>, -55)>>,
      <<Dbl(FALSE, <<11531, 13874, 14136, 163>>, -52),
        Dbl(TRUE, <<12288, 27183, 7465, 250>>, -55)>>,
      <<Dbl(FALSE, <<6228, 9842, 20327, 162>>, -52),
        Dbl(TRUE, <<12288, 31264, 4368, 245>>, -55)>>,
      <<Dbl(FALSE, <<1114, 2409, 26781, 161>>, -52),
        Dbl(TRUE, <<12288, 2515, 2101, 240>>, -55)>>,
      <<Dbl(FALSE, <<30971, 555, 725, 161>>, -52),
        Dbl(TRUE, <<28672, 21231, 648, 235>>, -55)>>,
      <<Dbl(FALSE, <<29873, 13437, 7691, 160>>, -52),
        Dbl(TRUE, <<4096, 2347, 4, 230>>, -55)>>,
      <<Dbl(FALSE, <<32399, 15023, 14909, 159>>, -52),
        Dbl(TRUE, <<4096, 11538, 165, 225>>, -55)>>,
      <<Dbl(FALSE, <<19689, 16406, 22374, 158>>, -52),
        Dbl(TRUE, <<4096, 6914, 1118, 220>>, -55)>>,
      <<Dbl(FALSE, <<16683, 33, 30083, 157>>, -52),
        Dbl(TRUE, <<20480, 6567, 2855, 215>>, -55)>>,
      <<Dbl(FALSE, <<23224, 22251, 5264, 157>>, -52),
        Dbl(TRUE, <<4096, 23589, 5376, 210>>, -55)>>,
      <<Dbl(FALSE, <<20482, 6975, 13451, 156>>, -52),
        Dbl(TRUE, <<28672, 20539, 8669, 205>>, -55)>>,
      <<Dbl(FALSE, <<31260, 2824, 21871, 155>>, -52),
        Dbl(TRUE, <<12288, 21136, 12725, 200>>, -55)>>,
      <<Dbl(FALSE, <<14050, 4954, 30521, 154>>, -52),
        Dbl(TRUE, <<16384, 19595, 17538, 195>>, -55)>>,
      <<Dbl(FALSE, <<21568, 12443, 6630, 154>>, -52),
        Dbl(TRUE, <<12288, 26664, 23102, 190>>, -55)>>,
      <<Dbl(FALSE, <<19236, 7679, 15731, 153>>, -52),
        Dbl(TRUE, <<28672, 30916, 29408, 185>>, -55)>>,
      <<Dbl(FALSE, <<3401, 27458, 25053, 152>>, -52),
        Dbl(TRUE, <<24576, 13934, 3690, 181>>, -55)>>,
      <<Dbl(FALSE, <<14736, 28284, 1824, 152>>, -52),
        Dbl(TRUE, <<8192, 10607, 11461, 176>>, -55)>>,
      <<Dbl(FALSE, <<30785, 30507, 11578, 151>>, -52),
        Dbl(TRUE, <<12288, 27720, 19957, 171>>, -55)>>,
      <<Dbl(FALSE, <<10705, 1075, 21544, 150>>, -52),
        Dbl(TRUE, <<12288, 8068, 29166, 166>>, -55)>>,
      <<Dbl(FALSE, <<32042, 20847, 31718, 149>>, -52),
        Dbl(TRUE, <<0, 9124, 6321, 162>>, -55)>>,
      <<Dbl(FALSE, <<7083, 29720, 9329, 149>>, -52),
        Dbl(TRUE, <<0, 30982, 16938, 157>>, -55)>>,
      <<Dbl(FALSE, <<13616, 16425, 19913, 148>>, -52),
        Dbl(TRUE, <<0, 22162, 28261, 152>>, -55)>>,
      <<Dbl(FALSE, <<8693, 11951, 30697, 147>>, -52),
        Dbl(TRUE, <<16384, 8520, 7506, 148>>, -55)>>,
      <<Dbl(FALSE, <<15295, 13882, 8910, 147>>, -52),
        Dbl(TRUE, <<8192, 28915, 20199, 143>>, -55)>>,
      <<Dbl(FALSE, <<30141, 1823, 20086, 146>>, -52),
        Dbl(TRUE, <<8192, 19033, 800, 139>>, -55)>>,
      <<Dbl(FALSE, <<2107, 21906, 31454, 145>>, -52),
        Dbl(TRUE, <<8192, 12270, 14845, 134>>, -55)>>,
      <<Dbl(FALSE, <<16566, 22354, 10244, 145>>, -52),
        Dbl(TRUE, <<8192, 5117, 29553, 129>>, -55)>>,
      <<Dbl(FALSE, <<16690, 11672, 21990, 144>>, -52),
        Dbl(TRUE, <<0, 30871, 24310, 250>>, -56)>>,
      <<Dbl(FALSE, <<31899, 15269, 1152, 144>>, -52),
        Dbl(TRUE, <<16384, 11392, 23586, 241>>, -56)>>,
      <<Dbl(FALSE, <<18443, 4762, 13265, 143>>, -52),
        Dbl(TRUE, <<16384, 32242, 24160, 232>>, -56)>>,
      <<Dbl(FALSE, <<25961, 9502, 25557, 142>>, -52),
        Dbl(TRUE, <<8192, 7601, 26013, 223>>, -56)>>,
      <<Dbl(FALSE, <<32380, 8878, 5260, 142>>, -52),
        Dbl(TRUE, <<24576, 16478, 29156, 214>>, -56)>>,
      <<Dbl(FALSE, <<9961, 27030, 17905, 141>>, -52),
        Dbl(TRUE, <<0, 20049, 783, 206>>, -56)>>,
      <<Dbl(FALSE, <<6838, 6232, 30724, 140>>, -52),
        Dbl(TRUE, <<16384, 26341, 6426, 197>>, -56)>>,
      <<Dbl(FALSE, <<28861, 30572, 10945, 140>>, -52),
        Dbl(TRUE, <<0, 26456, 13318, 188>>, -56)>>,
      <<Dbl(FALSE, <<15542, 19423, 24104, 139>>, -52),
        Dbl(TRUE, <<0, 2672, 21445, 179>>, -56)>>,
      <<Dbl(FALSE, <<12762, 27288, 4660, 139>>, -52),
        Dbl(TRUE, <<0, 23311, 30777, 170>>, -56)>>,
      <<Dbl(FALSE, <<24541, 8270, 18150, 138>>, -52),
        Dbl(TRUE, <<24576, 15683, 8563, 162>>, -56)>>,
      <<Dbl(FALSE, <<21068, 18533, 31802, 137>>, -52),
        Dbl(TRUE, <<8192, 6869, 20325, 153>>, -56)>>,
      <<Dbl(FALSE, <<31194, 25633, 12845, 137>>, -52),
        Dbl(TRUE, <<24576, 29066, 487, 145>>, -56)>>,
      <<Dbl(FALSE, <<13617, 20953, 26816, 136>>, -52),
        Dbl(TRUE, <<8192, 12484, 14618, 136>>, -56)>>,
      <<Dbl(FALSE, <<13487, 13576, 8175, 136>>, -52),
        Dbl(TRUE, <<0, 21924, 27057, 255>>, -57)>>,
      <<Dbl(FALSE, <<27571, 7836, 22456, 135>>, -52),
        Dbl(TRUE, <<16384, 5358, 27189, 238>>, -57)>>,
      <<Dbl(FALSE, <<8142, 14933, 4121, 135>>, -52),
        Dbl(TRUE, <<0, 18698, 29619, 221>>, -57)>>,
      <<Dbl(FALSE, <<9505, 18009, 18705, 134>>, -52),
        Dbl(TRUE, <<16384, 37, 1573, 205>>, -57)>>,
      <<Dbl(FALSE, <<6170, 31173, 669, 134>>, -52),
        Dbl(TRUE, <<16384, 26117, 8544, 188>>, -57)>>,
      <<Dbl(FALSE, <<14033, 1932, 15550, 133>>, -52),
        Dbl(TRUE, <<0, 20397, 17785, 171>>, -57)>>,
      <<Dbl(FALSE, <<4921, 12608, 30574, 132>>, -52),
        Dbl(TRUE, <<0, 4811, 29225, 154>>, -57)>>,
      <<Dbl(FALSE, <<26591, 24229, 12974, 132>>, -52),
        Dbl(TRUE, <<16384, 18474, 10125, 138>>, -57)>>,
      <<Dbl(FALSE, <<10491, 24220, 28284, 131>>, -52),
        Dbl(TRUE, <<0, 1495, 19202, 243>>, -58)>>,
      <<Dbl(FALSE, <<3865, 6251, 10966, 131>>, -52),
        Dbl(TRUE, <<0, 9381, 22469, 210>>, -58)>>,
      <<Dbl(FALSE, <<31020, 19417, 26554, 130>>, -52),
        Dbl(TRUE, <<0, 7939, 30091, 177>>, -58)>>,
      <<Dbl(FALSE, <<11408, 7074, 9511, 130>>, -52),
        Dbl(TRUE, <<0, 6484, 9198, 145>>, -58)>>,
      <<Dbl(FALSE, <<11689, 3553, 25371, 129>>, -52),
        Dbl(TRUE, <<0, 16882, 17900, 225>>, -59)>>,
      <<Dbl(FALSE, <<12969, 9970, 8596, 129>>, -52),
        Dbl(TRUE, <<0, 15188, 25813, 160>>, -59)>>,
      <<Dbl(FALSE, <<29512, 20436, 24720, 128>>, -52),
        Dbl(TRUE, <<0, 1496, 18447, 192>>, -60)>>,
      <<Dbl(FALSE, <<12693, 3113, 8208, 128>>, -52),
        Dbl(TRUE, <<0, 29256, 4133, 128>>, -61)>>,
      <<Dbl(FALSE, <<31258, 28237, 127, 255>>, -53),
        Dbl(FALSE, <<0, 2336, 16334, 255>>, -61)>>,
      <<Dbl(FALSE, <<27252, 1219, 1139, 253>>, -53),
        Dbl(FALSE, <<0, 27258, 28932, 190>>, -59)>>,
      <<Dbl(FALSE, <<6446, 24835, 3138, 251>>, -53),
        Dbl(FALSE, <<0, 2437, 14991, 158>>, -58)>>,
      <<Dbl(FALSE, <<11725, 31197, 6104, 249>>, -53),
        Dbl(FALSE, <<0, 10514, 32516, 220>>, -58)>>,
      <<Dbl(FALSE, <<5095, 1826, 10016, 247>>, -53),
        Dbl(FALSE, <<0, 7202, 17251, 141>>, -57)>>,
      <<Dbl(FALSE, <<12715, 29079, 14849, 245>>, -53),
        Dbl(FALSE, <<16384, 8195, 10607, 172>>, -57)>>,
      <<Dbl(FALSE, <<3227, 17722, 20586, 243>>, -53),
        Dbl(FALSE, <<0, 433, 29197, 202>>, -57)>>,
      <<Dbl(FALSE, <<6581, 1557, 27206, 241>>, -53),
        Dbl(FALSE, <<0, 24239, 7595, 233>>, -57)>>,
      <<Dbl(FALSE, <<6742, 4801, 1920, 240>>, -53),
        Dbl(FALSE, <<16384, 19249, 22115, 131>>, -56)>>,
      <<Dbl(FALSE, <<15256, 19183, 10247, 238>>, -53),
        Dbl(FALSE, <<8192, 17946, 20439, 146>>, -56)>>,
      <<Dbl(FALSE, <<4355, 5881, 19400, 236>>, -53),
        Dbl(FALSE, <<0, 5744, 15222, 161>>, -56)>>,
      <<Dbl(FALSE, <<23758, 19958, 29361, 234>>, -53),
        Dbl(FALSE, <<16384, 3759, 6502, 176>>, -56)>>,
      <<Dbl(FALSE, <<24221, 21693, 7346, 233>>, -53),
        Dbl(FALSE, <<0, 27348, 27096, 190>>, -56)>>,
      <<Dbl(FALSE, <<11469, 31958, 18872, 231>>, -53),
        Dbl(FALSE, <<24576, 7224, 11533, 205>>, -56)>>,
      <<Dbl(FALSE, <<30978, 17742, 31158, 229>>, -53),
        Dbl(FALSE, <<24576, 30234, 25374, 219>>, -56)>>,
      <<Dbl(FALSE, <<2157, 23150, 11417, 228>>, -53),
        Dbl(FALSE, <<8192, 26062, 3148, 234>>, -56)>>,
      <<Dbl(FALSE, <<22532, 31418, 25170, 226>>, -53),
        Dbl(FALSE, <<24576, 25532, 10437, 248>>, -56)>>,
      <<Dbl(FALSE, <<8076, 26487, 6868, 225>>, -53),
        Dbl(FALSE, <<16384, 22306, 7252, 131>>, -55)>>,
      <<Dbl(FALSE, <<26431, 24025, 22031, 223>>, -53),
        Dbl(FALSE, <<12288, 1317, 7702, 138>>, -55)>>,
      <<Dbl(FALSE, <<5825, 27575, 5109, 222>>, -53),
        Dbl(FALSE, <<12288, 7060, 6587, 145>>, -55)>>,
      <<Dbl(FALSE, <<18984, 6412, 21624, 220>>, -53),
        Dbl(FALSE, <<20480, 19850, 3934, 152>>, -55)>>,
      <<Dbl(FALSE, <<15916, 3038, 6027, 219>>, -53),
        Dbl(FALSE, <<4096, 30822, 32524, 158>>, -55)>>,
      <<Dbl(FALSE, <<2187, 20371, 23841, 217>>, -53),
        Dbl(FALSE, <<0, 22261, 26841, 165>>, -55)>>,
      <<Dbl(FALSE, <<12362, 16954, 9516, 216>>, -53),
        Dbl(FALSE, <<28672, 20899, 19684, 172>>, -55)>>,
      <<Dbl(FALSE, <<28542, 3045, 28578, 214>>, -53),
        Dbl(FALSE, <<28672, 18481, 11060, 179>>, -55)>>,
      <<Dbl(FALSE, <<15778, 25280, 15476, 213>>, -53),
        Dbl(FALSE, <<4096, 22733, 995, 186>>, -55)>>,
      <<Dbl(FALSE, <<22695, 32678, 2968, 212>>, -53),
        Dbl(FALSE, <<28672, 27189, 22275, 192>>, -55)>>,
      <<Dbl(FALSE, <<29579, 24082, 23811, 210>>, -53),
        Dbl(FALSE, <<0, 10733, 9381, 199>>, -55)>>,
      <<Dbl(FALSE, <<19239, 8534, 12458, 209>>, -53),
        Dbl(FALSE, <<16384, 1520, 27864, 205>>, -55)>>,
      <<Dbl(FALSE, <<29393, 10023, 1664, 208>>, -53),
        Dbl(FALSE, <<0, 14424, 12212, 212>>, -55)>>,
      <<Dbl(FALSE, <<15387, 18870, 24188, 206>>, -53),
        Dbl(FALSE, <<20480, 14339, 27973, 218>>, -55)>>,
      <<Dbl(FALSE, <<12688, 2959, 14484, 205>>, -53),
        Dbl(FALSE, <<16384, 6521, 9631, 225>>, -55)>>,
      <<Dbl(FALSE, <<20015, 25903, 5307, 204>>, -53),
        Dbl(FALSE, <<24576, 10896, 22743, 231>>, -55)>>,
      <<Dbl(FALSE, <<19317, 23880, 29419, 202>>, -53),
        Dbl(FALSE, <<16384, 26765, 1780, 238>>, -55)>>,
      <<Dbl(FALSE, <<18488, 15310, 21274, 201>>, -53),
        Dbl(FALSE, <<24576, 29087, 12294, 244>>, -55)>>,
      <<Dbl(FALSE, <<21222, 24270, 13628, 200>>, -53),
        Dbl(FALSE, <<4096, 47, 21543, 250>>, -55)>>,
      <<Dbl(FALSE, <<22429, 7679, 6474, 199>>, -53),
        Dbl(FALSE, <<14336, 9279, 14768, 128>>, -54)>>,
      <<Dbl(FALSE, <<124, 16280, 32570, 197>>, -53),
        Dbl(FALSE, <<20480, 7463, 18144, 131>>, -54)>>,
      <<Dbl(FALSE, <<17166, 13693, 26371, 196>>, -53),
        Dbl(FALSE, <<28672, 15628, 20910, 134>>, -54)>>,
      <<Dbl(FALSE, <<6139, 21574, 20638, 195>>, -53),
        Dbl(FALSE, <<20480, 26263, 23068, 137>>, -54)>>,
      <<Dbl(FALSE, <<6664, 22887, 15362, 194>>, -53),
        Dbl(FALSE, <<18432, 20038, 24629, 140>>, -54)>>,
      <<Dbl(FALSE, <<15957, 20682, 10535, 193>>, -53),
        Dbl(FALSE, <<0, 16793, 25599, 143>>, -54)>>,
      <<Dbl(FALSE, <<608, 11240, 6150, 192>>, -53),
        Dbl(FALSE, <<26624, 11974, 25983, 146>>, -54)>>,
      <<Dbl(FALSE, <<9001, 18369, 2197, 191>>, -53),
        Dbl(FALSE, <<10240, 4649, 25792, 149>>, -54)>>,
      <<Dbl(FALSE, <<13741, 28601, 31437, 189>>, -53),
        Dbl(FALSE, <<24576, 8326, 25032, 152>>, -54)>>,
      <<Dbl(FALSE, <<9666, 20270, 28329, 188>>, -53),
        Dbl(FALSE, <<6144, 23512, 23705, 155>>, -54)>>,
      <<Dbl(FALSE, <<1623, 25646, 25631, 187>>, -53),
        Dbl(FALSE, <<12288, 30558, 21823, 158>>, -54)>>,
      <<Dbl(FALSE, <<4876, 14252, 23339, 186>>, -53),
        Dbl(FALSE, <<24576, 18015, 19387, 161>>, -54)>>
    >>

\* the constants of the logarithm of pow(): ln(2) in two parts and the
\* polynomial A; and for x = 10.0 = 2 ** kd * z the entry of its table for
\* z: 1 / c, ln(c) and the rest of ln(c)
PowLogData ==
    ("Ln2hi" :> Dbl(FALSE, <<14336, 32244, 14603, 177>>, -53))
        @@ ("Ln2lo" :> Dbl(FALSE, <<26416, 10126, 19806, 247>>, -97))
        @@ ("MinusOne" :> Dbl(TRUE, <<0, 0, 0, 128>>, -52))
        @@ ("A0" :> Dbl(TRUE, <<0, 0, 0, 128>>, -53))
        @@ ("A1" :> Dbl(TRUE, <<21856, 10922, 21845, 170>>, -53))
        @@ ("A2" :> Dbl(FALSE, <<6, 0, 0, 128>>, -53))
        @@ ("A3" :> Dbl(FALSE, <<21838, 12978, 26214, 204>>, -53))
        @@ ("A4" :> Dbl(TRUE, <<9338, 10835, 21845, 170>>, -53))
        @@ ("A5" :> Dbl(TRUE, <<17897, 13968, 9582, 146>>, -52))
        @@ ("A6" :> Dbl(FALSE, <<16323, 5708, 174, 128>>, -52))
        @@ ("z" :> Dbl(FALSE, <<0, 0, 0, 160>>, -52))
        @@ ("kd" :> Dbl(FALSE, <<0, 0, 0, 192>>, -51))
        @@ ("invc" :> Dbl(FALSE, <<0, 0, 0, 205>>, -53))
        @@ ("logc" :> Dbl(FALSE, <<4096, 3552, 16367, 227>>, -55))
        @@ ("logctail" :> Dbl(TRUE, <<11218, 2860, 12747, 143>>, -100))

\* the constants of the exponential of pow(): 128 / ln(2), the shift
\* 1.5 * 2 ** 52 that rounds to an integer, -ln(2) / 128 in two parts, the
\* polynomial C, and the powers of two of the special cases
ExpData ==
    ("InvLn2N" :> Dbl(FALSE, <<766, 19031, 21789, 184>>, -45))
        @@ ("Shift" :> Dbl(FALSE, <<0, 0, 0, 192>>, 0))
        @@ ("NegLn2hiN" :> Dbl(TRUE, <<0, 32244, 14603, 177>>, -60))
        @@ ("NegLn2loN" :> Dbl(TRUE, <<15162, 31036, 24170, 231>>, -99))
        @@ ("C2" :> Dbl(FALSE, <<32189, 32767, 32767, 255>>, -54))
        @@ ("C3" :> Dbl(FALSE, <<21564, 10922, 21845, 170>>, -55))
        @@ ("C4" :> Dbl(FALSE, <<11153, 7726, 21847, 170>>, -57))
        @@ ("C5" :> Dbl(FALSE, <<20503, 20297, 17477, 136>>, -59))
        @@ ("Zero" :> Dbl(FALSE, <<>>, 0))
        @@ ("One" :> Dbl(FALSE, <<0, 0, 0, 128>>, -52))
        @@ ("Minus1009" :> Dbl(TRUE, <<0, 0, 8192, 252>>, -43))
        @@ ("Plus1022" :> Dbl(FALSE, <<0, 0, 16384, 255>>, -43))
        @@ ("TwoTo1009" :> Dbl(FALSE, <<0, 0, 0, 128>>, 957))
        @@ ("TwoToMinus1022" :> Dbl(FALSE, <<0, 0, 0, 128>>, -1074))
        @@ ("Huge" :> Dbl(FALSE, <<0, 0, 0, 128>>, 717))
        @@ ("Tiny" :> Dbl(FALSE, <<0, 0, 0, 128>>, -819))

\* the table of the exponential: for j from 0 to 127 the double nearest to
\* 2 ** (j / 128), after what the double leaves of it, as a part of the
\* double
ExpTab ==
    <<
      <<Dbl(FALSE, <<>>, 0),
        Dbl(FALSE, <<0, 0, 0, 128>>, -52)>>,
      <<Dbl(FALSE, <<16238, 13585, 27964, 217>>, -106),
        Dbl(FALSE, <<13109, 21494, 22774, 128>>, -52)>>,
      <<Dbl(TRUE, <<23645, 14769, 78, 139>>, -108),
        Dbl(FALSE, <<97, 31983, 12904, 129>>, -52)>>,
      <<Dbl(TRUE, <<26321, 8462, 31208, 130>>, -106),
        Dbl(FALSE, <<32645, 20700, 3159, 130>>, -52)>>,
      <<Dbl(FALSE, <<30227, 27343, 18760, 230>>, -107),
        Dbl(FALSE, <<1396, 9771, 26307, 130>>, -52)>>,
      <<Dbl(TRUE, <<3834, 18419, 14848, 222>>, -107),
        Dbl(FALSE, <<30430, 21435, 16812, 131>>, -52)>>,
      <<Dbl(FALSE, <<18529, 17357, 23865, 135>>, -109),
        Dbl(FALSE, <<7112, 12523, 7444, 132>>, -52)>>,
      <<Dbl(FALSE, <<21401, 13927, 3985, 133>>, -106),
        Dbl(FALSE, <<29571, 5517, 30971, 132>>, -52)>>,
      <<Dbl(FALSE, <<31597, 15110, 27289, 188>>, -106),
        Dbl(FALSE, <<2319, 23027, 21857, 133>>, -52)>>,
      <<Dbl(FALSE, <<28668, 9723, 21610, 245>>, -107),
        Dbl(FALSE, <<18423, 22244, 12872, 134>>, -52)>>,
      <<Dbl(FALSE, <<7377, 24671, 30965, 245>>, -112),
        Dbl(FALSE, <<20898, 26023, 4016, 135>>, -52)>>,
      <<Dbl(TRUE, <<28171, 4896, 3282, 208>>, -109),
        Dbl(FALSE, <<21275, 24573, 28058, 135>>, -52)>>,
      <<Dbl(TRUE, <<15630, 21599, 22856, 170>>, -106),
        Dbl(FALSE, <<23377, 8228, 19463, 136>>, -52)>>,
      <<Dbl(TRUE, <<27221, 6301, 958, 132>>, -110),
        Dbl(FALSE, <<12748, 216, 10999, 137>>, -52)>>,
      <<Dbl(TRUE, <<29718, 29611, 9358, 142>>, -106),
        Dbl(FALSE, <<11744, 23890, 2666, 138>>, -52)>>,
      <<Dbl(FALSE, <<21935, 21176, 20367, 134>>, -107),
        Dbl(FALSE, <<3665, 4427, 27235, 138>>, -52)>>,
      <<Dbl(TRUE, <<4936, 21835, 27735, 128>>, -107),
        Dbl(FALSE, <<20859, 30970, 19168, 139>>, -52)>>,
      <<Dbl(TRUE, <<12861, 11196, 32705, 248>>, -107),
        Dbl(FALSE, <<3562, 28953, 11236, 140>>, -52)>>,
      <<Dbl(FALSE, <<21439, 32294, 9776, 220>>, -107),
        Dbl(FALSE, <<19317, 22239, 3439, 141>>, -52)>>,
      <<Dbl(TRUE, <<27430, 27683, 26225, 182>>, -106),
        Dbl(FALSE, <<23764, 2056, 28546, 141>>, -52)>>,
      <<Dbl(FALSE, <<12128, 31860, 13276, 215>>, -106),
        Dbl(FALSE, <<14762, 25297, 21020, 142>>, -52)>>,
      <<Dbl(TRUE, <<14493, 5900, 7691, 255>>, -107),
        Dbl(FALSE, <<22813, 17913, 13632, 143>>, -52)>>,
      <<Dbl(FALSE, <<17293, 2381, 15621, 211>>, -107),
        Dbl(FALSE, <<3286, 4293, 6382, 144>>, -52)>>,
      <<Dbl(FALSE, <<1149, 25032, 26646, 131>>, -107),
        Dbl(FALSE, <<23702, 8955, 32038, 144>>, -52)>>,
      <<Dbl(FALSE, <<10388, 18257, 15351, 180>>, -106),
        Dbl(FALSE, <<25144, 23786, 25065, 145>>, -52)>>,
      <<Dbl(FALSE, <<18557, 25832, 30819, 186>>, -107),
        Dbl(FALSE, <<9791, 8037, 18233, 146>>, -52)>>,
      <<Dbl(FALSE, <<26610, 12351, 7342, 130>>, -107),
        Dbl(FALSE, <<31965, 19396, 11541, 147>>, -52)>>,
      <<Dbl(TRUE, <<2142, 32482, 25068, 181>>, -106),
        Dbl(FALSE, <<25473, 17386, 4991, 148>>, -52)>>,
      <<Dbl(FALSE, <<11057, 23059, 24453, 151>>, -107),
        Dbl(FALSE, <<24289, 27199, 31351, 148>>, -52)>>,
      <<Dbl(TRUE, <<16378, 13535, 1644, 233>>, -112),
        Dbl(FALSE, <<22928, 8629, 25087, 149>>, -52)>>,
      <<Dbl(FALSE, <<2740, 25624, 24073, 217>>, -107),
        Dbl(FALSE, <<779, 19912, 18966, 150>>, -52)>>,
      <<Dbl(FALSE, <<19343, 5021, 21066, 240>>, -109),
        Dbl(FALSE, <<12118, 21116, 12990, 151>>, -52)>>,
      <<Dbl(FALSE, <<11190, 7009, 13781, 154>>, -107),
        Dbl(FALSE, <<14101, 5219, 7160, 152>>, -52)>>,
      <<Dbl(FALSE, <<29772, 17752, 2055, 178>>, -107),
        Dbl(FALSE, <<22577, 30873, 1475, 153>>, -52)>>,
      <<Dbl(FALSE, <<30794, 15271, 29925, 254>>, -107),
        Dbl(FALSE, <<5887, 25800, 28706, 153>>, -52)>>,
      <<Dbl(TRUE, <<23300, 30492, 3584, 181>>, -107),
        Dbl(FALSE, <<8177, 16165, 23317, 154>>, -52)>>,
      <<Dbl(TRUE, <<20584, 6294, 11191, 146>>, -106),
        Dbl(FALSE, <<10699, 28277, 18076, 155>>, -52)>>,
      <<Dbl(TRUE, <<11662, 13986, 8160, 200>>, -106),
        Dbl(FALSE, <<22630, 23051, 12985, 156>>, -52)>>,
      <<Dbl(TRUE, <<14034, 32040, 18336, 142>>, -108),
        Dbl(FALSE, <<8183, 27083, 8044, 157>>, -52)>>,
      <<Dbl(TRUE, <<6933, 26524, 25702, 200>>, -106),
        Dbl(FALSE, <<10469, 1575, 3255, 158>>, -52)>>,
      <<Dbl(FALSE, <<19565, 20052, 32034, 172>>, -107),
        Dbl(FALSE, <<13346, 6180, 31385, 158>>, -52)>>,
      <<Dbl(TRUE, <<27018, 29776, 18817, 152>>, -106),
        Dbl(FALSE, <<28, 2393, 26900, 159>>, -52)>>,
      <<Dbl(TRUE, <<2395, 4143, 7741, 197>>, -110),
        Dbl(FALSE, <<11818, 17390, 22568, 160>>, -52)>>,
      <<Dbl(TRUE, <<6683, 20115, 12909, 225>>, -108),
        Dbl(FALSE, <<10391, 12961, 18391, 161>>, -52)>>,
      <<Dbl(FALSE, <<11281, 16773, 4021, 155>>, -111),
        Dbl(FALSE, <<2349, 16579, 14369, 162>>, -52)>>,
      <<Dbl(FALSE, <<25839, 30220, 6180, 179>>, -106),
        Dbl(FALSE, <<87, 23098, 10503, 163>>, -52)>>,
      <<Dbl(FALSE, <<889, 13634, 13191, 246>>, -109),
        Dbl(FALSE, <<15568, 27522, 6794, 164>>, -52)>>,
      <<Dbl(FALSE, <<4656, 32286, 32312, 159>>, -106),
        Dbl(FALSE, <<21470, 25007, 3243, 165>>, -52)>>,
      <<Dbl(FALSE, <<12208, 30453, 17210, 180>>, -108),
        Dbl(FALSE, <<10791, 10860, 32619, 165>>, -52)>>,
      <<Dbl(FALSE, <<24695, 22185, 30455, 152>>, -106),
        Dbl(FALSE, <<23821, 13307, 29386, 166>>, -52)>>,
      <<Dbl(TRUE, <<9102, 227, 20688, 252>>, -107),
        Dbl(FALSE, <<11431, 27962, 26313, 167>>, -52)>>,
      <<Dbl(TRUE, <<9033, 14631, 31539, 190>>, -107),
        Dbl(FALSE, <<26178, 17822, 23402, 168>>, -52)>>,
      <<Dbl(TRUE, <<14431, 31262, 31514, 198>>, -108),
        Dbl(FALSE, <<20354, 11578, 20653, 169>>, -52)>>,
      <<Dbl(TRUE, <<23798, 22774, 18715, 176>>, -107),
        Dbl(FALSE, <<4623, 5307, 18067, 170>>, -52)>>,
      <<Dbl(FALSE, <<22414, 12795, 21524, 153>>, -106),
        Dbl(FALSE, <<10202, 28010, 15644, 171>>, -52)>>,
      <<Dbl(FALSE, <<6917, 24341, 25308, 220>>, -108),
        Dbl(FALSE, <<18429, 10543, 13387, 172>>, -52)>>,
      <<Dbl(FALSE, <<21513, 17464, 3975, 131>>, -106),
        Dbl(FALSE, <<21545, 14992, 11295, 173>>, -52)>>,
      <<Dbl(FALSE, <<18154, 8243, 7701, 166>>, -112),
        Dbl(FALSE, <<18103, 5298, 9370, 174>>, -52)>>,
      <<Dbl(FALSE, <<16437, 22217, 19352, 161>>, -106),
        Dbl(FALSE, <<8520, 11098, 7612, 175>>, -52)>>,
      <<Dbl(TRUE, <<30367, 17202, 4393, 231>>, -107),
        Dbl(FALSE, <<23561, 29421, 6022, 176>>, -52)>>,
      <<Dbl(TRUE, <<19880, 30686, 20244, 225>>, -107),
        Dbl(FALSE, <<21893, 24692, 4602, 177>>, -52)>>,
      <<Dbl(TRUE, <<27054, 4695, 19938, 162>>, -107),
        Dbl(FALSE, <<17184, 27033, 3352, 178>>, -52)>>,
      <<Dbl(TRUE, <<22616, 28844, 15221, 158>>, -106),
        Dbl(FALSE, <<8741, 1194, 2274, 179>>, -52)>>,
      <<Dbl(FALSE, <<6500, 252, 17066, 184>>, -110),
        Dbl(FALSE, <<10611, 10393, 1367, 180>>, -52)>>,
      <<Dbl(TRUE, <<8744, 32444, 20414, 157>>, -106),
        Dbl(FALSE, <<15309, 19710, 633, 181>>, -52)>>,
      <<Dbl(TRUE, <<14722, 3689, 19126, 208>>, -109),
        Dbl(FALSE, <<23231, 27159, 73, 182>>, -52)>>,
      <<Dbl(TRUE, <<10734, 28891, 8126, 155>>, -109),
        Dbl(FALSE, <<6703, 30922, 32456, 182>>, -52)>>,
      <<Dbl(TRUE, <<2129, 10689, 28917, 134>>, -107),
        Dbl(FALSE, <<5252, 29347, 32247, 183>>, -52)>>,
      <<Dbl(TRUE, <<16079, 31924, 32145, 192>>, -108),
        Dbl(FALSE, <<24436, 20952, 32215, 184>>, -52)>>,
      <<Dbl(TRUE, <<32176, 278, 14635, 183>>, -107),
        Dbl(FALSE, <<372, 4427, 32361, 185>>, -52)>>,
      <<Dbl(TRUE, <<26250, 15531, 25800, 176>>, -107),
        Dbl(FALSE, <<26569, 11396, 32685, 186>>, -52)>>,
      <<Dbl(FALSE, <<21715, 15379, 29485, 132>>, -106),
        Dbl(FALSE, <<23871, 8124, 421, 188>>, -52)>>,
      <<Dbl(TRUE, <<9501, 29339, 19314, 217>>, -108),
        Dbl(FALSE, <<391, 26582, 1105, 189>>, -52)>>,
      <<Dbl(FALSE, <<16491, 10447, 13301, 167>>, -106),
        Dbl(FALSE, <<16690, 609, 1972, 190>>, -52)>>,
      <<Dbl(FALSE, <<27733, 22444, 12166, 175>>, -109),
        Dbl(FALSE, <<20066, 28062, 3020, 191>>, -52)>>,
      <<Dbl(TRUE, <<20290, 24423, 1812, 197>>, -107),
        Dbl(FALSE, <<6674, 10364, 4253, 192>>, -52)>>,
      <<Dbl(TRUE, <<14132, 25206, 9947, 155>>, -106),
        Dbl(FALSE, <<19987, 12953, 5670, 193>>, -52)>>,
      <<Dbl(TRUE, <<32542, 29747, 31248, 130>>, -107),
        Dbl(FALSE, <<18349, 3143, 7273, 194>>, -52)>>,
      <<Dbl(TRUE, <<22382, 12516, 20803, 166>>, -106),
        Dbl(FALSE, <<4845, 13961, 9062, 195>>, -52)>>,
      <<Dbl(FALSE, <<2560, 13853, 13725, 133>>, -106),
        Dbl(FALSE, <<26265, 13076, 11039, 196>>, -52)>>,
      <<Dbl(FALSE, <<27316, 993, 23743, 237>>, -107),
        Dbl(FALSE, <<8411, 1109, 13205, 197>>, -52)>>,
      <<Dbl(TRUE, <<26623, 14731, 22914, 173>>, -109),
        Dbl(FALSE, <<17548, 11626, 15560, 198>>, -52)>>,
      <<Dbl(FALSE, <<24388, 13286, 23053, 223>>, -108),
        Dbl(FALSE, <<30518, 12842, 18106, 199>>, -52)>>,
      <<Dbl(TRUE, <<15747, 20028, 9342, 152>>, -106),
        Dbl(FALSE, <<32710, 5923, 20844, 200>>, -52)>>,
      <<Dbl(TRUE, <<7721, 5848, 9954, 237>>, -110),
        Dbl(FALSE, <<17893, 24987, 23774, 201>>, -52)>>,
      <<Dbl(TRUE, <<14681, 31009, 4069, 225>>, -109),
        Dbl(FALSE, <<21007, 6032, 26899, 202>>, -52)>>,
      <<Dbl(TRUE, <<31146, 17897, 3340, 146>>, -106),
        Dbl(FALSE, <<20048, 16316, 30218, 203>>, -52)>>,
      <<Dbl(TRUE, <<3659, 11981, 10675, 174>>, -107),
        Dbl(FALSE, <<1978, 24980, 965, 205>>, -52)>>,
      <<Dbl(FALSE, <<20007, 22307, 16368, 141>>, -108),
        Dbl(FALSE, <<28816, 1351, 4678, 206>>, -52)>>,
      <<Dbl(FALSE, <<29627, 16916, 18647, 238>>, -109),
        Dbl(FALSE, <<8995, 13254, 8588, 207>>, -52)>>,
      <<Dbl(TRUE, <<8803, 17604, 5136, 190>>, -107),
        Dbl(FALSE, <<25957, 30395, 12697, 208>>, -52)>>,
      <<Dbl(FALSE, <<12757, 18372, 29211, 216>>, -107),
        Dbl(FALSE, <<11571, 22676, 17007, 209>>, -52)>>,
      <<Dbl(TRUE, <<15125, 10105, 28487, 141>>, -106),
        Dbl(FALSE, <<9565, 25724, 21518, 210>>, -52)>>,
      <<Dbl(FALSE, <<12754, 14812, 12486, 134>>, -106),
        Dbl(FALSE, <<13144, 9825, 26232, 211>>, -52)>>,
      <<Dbl(FALSE, <<23219, 23782, 9745, 163>>, -107),
        Dbl(FALSE, <<32191, 10995, 31149, 212>>, -52)>>,
      <<Dbl(TRUE, <<7604, 12061, 32566, 150>>, -107),
        Dbl(FALSE, <<29562, 32679, 3502, 214>>, -52)>>,
      <<Dbl(FALSE, <<13191, 9622, 27102, 224>>, -107),
        Dbl(FALSE, <<21421, 12981, 8830, 215>>, -52)>>,
      <<Dbl(TRUE, <<23034, 5539, 28221, 131>>, -106),
        Dbl(FALSE, <<13926, 21275, 14364, 216>>, -52)>>,
      <<Dbl(TRUE, <<11962, 11705, 3941, 174>>, -110),
        Dbl(FALSE, <<5627, 28830, 20106, 217>>, -52)>>,
      <<Dbl(TRUE, <<30272, 31565, 4152, 133>>, -106),
        Dbl(FALSE, <<22842, 7114, 26058, 218>>, -52)>>,
      <<Dbl(TRUE, <<4916, 29019, 23504, 198>>, -109),
        Dbl(FALSE, <<24135, 26102, 32219, 219>>, -52)>>,
      <<Dbl(TRUE, <<2613, 22193, 15241, 143>>, -106),
        Dbl(FALSE, <<1610, 24898, 5824, 221>>, -52)>>,
      <<Dbl(FALSE, <<24013, 5311, 32604, 167>>, -108),
        Dbl(FALSE, <<16850, 8343, 12410, 222>>, -52)>>,
      <<Dbl(TRUE, <<6316, 29989, 30703, 141>>, -106),
        Dbl(FALSE, <<7689, 14254, 19209, 223>>, -52)>>,
      <<Dbl(FALSE, <<3251, 24926, 15032, 155>>, -108),
        Dbl(FALSE, <<21148, 15114, 26223, 224>>, -52)>>,
      <<Dbl(FALSE, <<32148, 14655, 3273, 247>>, -107),
        Dbl(FALSE, <<20602, 16383, 685, 226>>, -52)>>,
      <<Dbl(FALSE, <<22956, 8722, 575, 167>>, -107),
        Dbl(FALSE, <<20811, 23727, 8132, 227>>, -52)>>,
      <<Dbl(FALSE, <<6759, 28828, 14012, 158>>, -109),
        Dbl(FALSE, <<26549, 10253, 15798, 228>>, -52)>>,
      <<Dbl(FALSE, <<6504, 22820, 11441, 187>>, -109),
        Dbl(FALSE, <<4201, 14815, 23683, 229>>, -52)>>,
      <<Dbl(TRUE, <<13778, 1945, 10338, 132>>, -107),
        Dbl(FALSE, <<17402, 10939, 31789, 230>>, -52)>>,
      <<Dbl(TRUE, <<31343, 32767, 13684, 253>>, -107),
        Dbl(FALSE, <<2428, 5135, 7349, 232>>, -52)>>,
      <<Dbl(TRUE, <<10569, 28907, 14008, 128>>, -106),
        Dbl(FALSE, <<2546, 4123, 15900, 233>>, -52)>>,
      <<Dbl(FALSE, <<1959, 19578, 3606, 165>>, -108),
        Dbl(FALSE, <<9351, 14839, 24675, 234>>, -52)>>,
      <<Dbl(TRUE, <<8719, 16512, 18040, 148>>, -107),
        Dbl(FALSE, <<920, 11667, 908, 236>>, -52)>>,
      <<Dbl(FALSE, <<4780, 11139, 26947, 242>>, -107),
        Dbl(FALSE, <<12933, 1974, 10136, 237>>, -52)>>,
      <<Dbl(FALSE, <<27467, 22530, 26982, 161>>, -107),
        Dbl(FALSE, <<13408, 26115, 19591, 238>>, -52)>>,
      <<Dbl(TRUE, <<15903, 3944, 21636, 150>>, -107),
        Dbl(FALSE, <<7007, 26359, 29276, 239>>, -52)>>,
      <<Dbl(TRUE, <<3529, 30350, 10980, 201>>, -107),
        Dbl(FALSE, <<8489, 10731, 6424, 241>>, -52)>>,
      <<Dbl(FALSE, <<2259, 16501, 22545, 165>>, -108),
        Dbl(FALSE, <<16374, 20246, 16571, 242>>, -52)>>,
      <<Dbl(FALSE, <<29297, 9018, 6065, 158>>, -107),
        Dbl(FALSE, <<19587, 30606, 26951, 243>>, -52)>>,
      <<Dbl(TRUE, <<4592, 8103, 23626, 255>>, -107),
        Dbl(FALSE, <<4314, 17737, 4798, 245>>, -52)>>,
      <<Dbl(TRUE, <<29821, 17478, 14947, 237>>, -107),
        Dbl(FALSE, <<26609, 23324, 15648, 246>>, -52)>>,
      <<Dbl(FALSE, <<8200, 852, 3825, 246>>, -107),
        Dbl(FALSE, <<23079, 23746, 26735, 247>>, -52)>>,
      <<Dbl(FALSE, <<27442, 1875, 11859, 161>>, -107),
        Dbl(FALSE, <<14999, 28375, 5292, 249>>, -52)>>,
      <<Dbl(FALSE, <<1518, 25507, 4772, 211>>, -107),
        Dbl(FALSE, <<17728, 14044, 16857, 250>>, -52)>>,
      <<Dbl(TRUE, <<25581, 18551, 24299, 241>>, -107),
        Dbl(FALSE, <<15892, 23353, 28662, 251>>, -52)>>,
      <<Dbl(FALSE, <<19869, 6947, 9453, 188>>, -108),
        Dbl(FALSE, <<4312, 829, 7942, 253>>, -52)>>,
      <<Dbl(FALSE, <<19593, 705, 5893, 152>>, -110),
        Dbl(FALSE, <<29169, 22302, 20232, 254>>, -52)>>
    >>

\* log_inline() of pow(): the logarithm of x = 2 ** kd * z in two parts, y
\* and tail
PowLog ==
    <<
      <<"t1", "fma", "kd", "Ln2hi", "logc">>,
      <<"lo1", "fma", "kd", "Ln2lo", "logctail">>,
      <<"r", "fma", "z", "invc", "MinusOne">>,
      <<"ar", "mul", "r", "A0", "r">>,
      <<"p1", "fma", "r", "A2", "A1">>,
      <<"p3", "fma", "r", "A4", "A3">>,
      <<"t2", "add", "r", "t1", "r">>,
      <<"ar2", "mul", "r", "ar", "r">>,
      <<"d1", "sub", "t1", "t2", "t1">>,
      <<"ar3", "mul", "r", "ar2", "r">>,
      <<"lo3", "fms", "ar", "r", "ar2">>,
      <<"lo2", "add", "d1", "r", "d1">>,
      <<"p5", "fma", "r", "A6", "A5">>,
      <<"hi", "add", "t2", "ar2", "t2">>,
      <<"d2", "sub", "t2", "hi", "t2">>,
      <<"q3", "fma", "p5", "ar2", "p3">>,
      <<"lo4", "add", "d2", "ar2", "d2">>,
      <<"q1", "fma", "ar2", "q3", "p1">>,
      <<"s1", "add", "lo1", "lo2", "lo1">>,
      <<"s2", "add", "s1", "lo3", "s1">>,
      <<"s3", "add", "s2", "lo4", "s2">>,
      <<"lo", "fma", "ar3", "q1", "s3">>,
      <<"y", "add", "hi", "lo", "hi">>,
      <<"d3", "sub", "hi", "y", "hi">>,
      <<"tail", "add", "d3", "lo", "d3">>
    >>

\* pow(): y * ln(10) in two parts, ehi and elo
PowMul ==
    <<
      <<"ehi", "mul", "y", "loghi", "y">>,
      <<"e2", "fms", "loghi", "y", "ehi">>,
      <<"elo", "fma", "y", "loglo", "e2">>
    >>

\* pow() for |y| below 2 ** -65: 1.0 + y
PowOne ==
    <<
      <<"result", "add", "y", "One", "y">>
    >>

\* __math_oflow(): a product that overflows
Overflow ==
    <<
      <<"result", "mul", "Huge", "Huge", "Huge">>
    >>

\* __math_uflow(): a product that underflows
Underflow ==
    <<
      <<"result", "mul", "Tiny", "Tiny", "Tiny">>
    >>

\* exp_inline() for |x| below 2 ** -54: 1.0 + x
ExpOne ==
    <<
      <<"result", "add", "ehi", "One", "ehi">>
    >>

\* exp_inline(): x * 128 / ln(2) rounded to the integer kd
ExpReduce ==
    <<
      <<"t", "fma", "ehi", "InvLn2N", "Shift">>,
      <<"kd", "sub", "t", "Shift", "t">>
    >>

\* exp_inline(): x + xtail is kd * ln(2) / 128 + r, and exp(r) is 1 + tmp;
\* tail is what the table's 2 ** (j / 128) leaves, j = kd % 128
ExpPoly ==
    <<
      <<"r0", "fma", "kd", "NegLn2hiN", "ehi">>,
      <<"r1", "fma", "kd", "NegLn2loN", "r0">>,
      <<"tail", "tail", "kd", "kd", "kd">>,
      <<"r", "add", "elo", "r1", "elo">>,
      <<"q23", "fma", "r", "C3", "C2">>,
      <<"tr", "add", "r", "tail", "r">>,
      <<"r2", "mul", "r", "r", "r">>,
      <<"q45", "fma", "r", "C5", "C4">>,
      <<"t0", "fma", "q23", "r2", "tr">>,
      <<"r4", "mul", "r2", "r2", "r2">>,
      <<"tmp", "fma", "q45", "r4", "t0">>
    >>

\* exp_inline() for |x| below 512: scale + scale * tmp, for the scale
\* 2 ** (kd / 128) of the table
ExpScale ==
    <<
      <<"scale", "scale", "kd", "Zero", "kd">>,
      <<"result", "fma", "tmp", "scale", "scale">>
    >>

\* specialcase() for kd >= 0: the result with the scale times 2 ** -1009,
\* times 2 ** 1009
ExpBig ==
    <<
      <<"scale", "scale", "kd", "Minus1009", "kd">>,
      <<"y1", "fma", "scale", "tmp", "scale">>,
      <<"result", "mul", "y1", "TwoTo1009", "y1">>
    >>

\* specialcase() for kd < 0: y1 is the result with the scale times
\* 2 ** 1022
ExpSmall ==
    <<
      <<"scale", "scale", "kd", "Plus1022", "kd">>,
      <<"st", "mul", "tmp", "scale", "tmp">>,
      <<"y1", "add", "scale", "st", "scale">>
    >>

\* specialcase() for y1 below 1.0, that the product with 2 ** -1022 rounds
\* once more: y1 is rounded to the digits that are left
ExpSmallRound ==
    <<
      <<"d1", "sub", "scale", "y1", "scale">>,
      <<"lo", "add", "d1", "st", "d1">>,
      <<"hi", "add", "y1", "One", "y1">>,
      <<"d2", "sub", "One", "hi", "One">>,
      <<"d3", "add", "d2", "y1", "d2">>,
      <<"lo2", "add", "d3", "lo", "d3">>,
      <<"s", "add", "lo2", "hi", "lo2">>,
      <<"y1", "sub", "s", "One", "s">>
    >>

\* specialcase() for kd < 0: the product with 2 ** -1022
ExpSmallEnd ==
    <<
      <<"result", "mul", "y1", "TwoToMinus1022", "y1">>
    >>

\* log(1.0)
LogOne ==
    <<
      <<"ln", "add", "Zero", "Zero", "Zero">>
    >>

\* log(x) for x = 2 ** kd * z away from 1
LogMain ==
    <<
      <<"w", "fma", "kd", "Ln2hi", "logc">>,
      <<"r", "fma", "z", "invc", "MinusOne">>,
      <<"p12", "fma", "r", "A2", "A1">>,
      <<"hi", "add", "r", "w", "r">>,
      <<"r2", "mul", "r", "r", "r">>,
      <<"d1", "sub", "w", "hi", "w">>,
      <<"l0", "add", "d1", "r", "d1">>,
      <<"l1", "fma", "kd", "Ln2lo", "l0">>,
      <<"r3", "mul", "r", "r2", "r">>,
      <<"p34", "fma", "r", "A4", "A3">>,
      <<"lo", "fma", "r2", "A0", "l1">>,
      <<"p", "fma", "p34", "r2", "p12">>,
      <<"y1", "fma", "r3", "p", "lo">>,
      <<"ln", "add", "y1", "hi", "y1">>
    >>

\* log(x) for x from 0.9375 to 1.0647
LogNear ==
    <<
      <<"r", "sub", "x", "One", "x">>,
      <<"q1", "fma", "r", "B2", "B1">>,
      <<"q4", "fma", "r", "B5", "B4">>,
      <<"r2", "mul", "r", "r", "r">>,
      <<"q7", "fma", "r", "B8", "B7">>,
      <<"q1b", "fma", "r2", "B3", "q1">>,
      <<"q4b", "fma", "r2", "B6", "q4">>,
      <<"r3", "mul", "r", "r2", "r">>,
      <<"q7b", "fma", "r2", "B9", "q7">>,
      <<"q7c", "fma", "r3", "B10", "q7b">>,
      <<"q4c", "fma", "q7c", "r3", "q4b">>,
      <<"q", "fma", "q4c", "r3", "q1b">>,
      <<"rw", "fma", "r", "TwoTo27", "r">>,
      <<"rhi", "fnma", "TwoTo27", "r", "rw">>,
      <<"rhi2", "mul", "rhi", "rhi", "rhi">>,
      <<"rlo", "sub", "r", "rhi", "r">>,
      <<"hi", "fma", "rhi2", "B0", "r">>,
      <<"d1", "sub", "r", "hi", "r">>,
      <<"s", "add", "r", "rhi", "r">>,
      <<"lo", "fma", "rhi2", "B0", "d1">>,
      <<"t", "mul", "B0", "rlo", "B0">>,
      <<"lo2", "fma", "t", "s", "lo">>,
      <<"y1", "fma", "q", "r3", "lo2">>,
      <<"ln", "add", "hi", "y1", "hi">>
    >>

\* the end of log10(): y is the exponent of x as a double, ln the logarithm
\* of the rest; z1 = y * log10_2lo + ivln10 * ln; return z1 + y * log10_2hi
Log10End ==
    <<
      <<"t", "mul", "y", "log10_2lo", "y">>,
      <<"u", "mul", "y", "log10_2hi", "y">>,
      <<"v", "mul", "ln", "ivln10", "ln">>,
      <<"z1", "add", "v", "t", "v">>,
      <<"result", "add", "z1", "u", "z1">>
    >>

\* one operation of the library on doubles.  The fused a * b + c ("fma"),
\* a * b - c ("fms") and -(a * b) + c ("fnma") round once; a + b, a - b and
\* a * b are the fused a * 1 + b, a * 1 - b and a * b - 0.  Of the
\* exponential's table, for the integer a = 128 * q + j with j from 0 to
\* 127, "tail" is what the double of 2 ** (j / 128) leaves of it and
\* "scale" is that double times 2 ** (q + b)
Operation(op, a, b, c) ==
    IF op = "tail" THEN ExpTab[(IntOf(a) % 128) + 1][1]
    ELSE IF op = "scale"
    THEN Ldexp(ExpTab[(IntOf(a) % 128) + 1][2],
               (IntOf(a) - (IntOf(a) % 128)) \div 128 + IntOf(b))
    ELSE SignedFma(IF op = "fnma" THEN SignedNeg(a) ELSE a,
                   IF op \in {"add", "sub"} THEN ExpData["One"] ELSE b,
                   CASE op = "add" -> b
                     [] op = "sub" -> SignedNeg(b)
                     [] op = "mul" -> Dbl(TRUE, <<>>, 0)
                     [] op = "fma" -> c
                     [] op = "fms" -> SignedNeg(c)
                     [] op = "fnma" -> c)

\* a part of a function of the library is a sequence of steps <<v, op, a, b,
\* c>>, each the assignment v = op(a, b, c) to a variable of the function
\* (a and b for an operation of two); regs maps the names of the variables
\* and of the constants to their doubles
Step(regs, ins) ==
    (ins[1] :> Operation(ins[2], regs[ins[3]], regs[ins[4]], regs[ins[5]])) @@ regs

\* the steps from the i-th on, S the set of the one regs before them
RECURSIVE RunFrom(_, _, _)
RunFrom(S, prog, i) ==
    IF i > Len(prog) THEN S ELSE RunFrom({Step(regs, prog[i]) : regs \in S}, prog, i + 1)

\* the variables after the steps of prog
Run(regs, prog) == Only(RunFrom({regs}, prog, 1))

\* ln(10) in the two parts y and tail of log_inline()
Ln10 == Run(PowLogData, PowLog)

\* the k-th part of pow(10.0, y), from the variables before it: nothing
\* after the result; for |y| below 2 ** -65 and from 2 ** 63 the result at
\* once; for |ehi| below 2 ** -54 and from 2 ** 10 the same in exp_inline(),
\* and specialcase() from 2 ** 9, where the result is 2 ** 1022 times y1
\* for kd below zero
PowStage(regs, k) ==
    IF "result" \in DOMAIN regs THEN <<>>
    ELSE CASE k = 1 ->
                 IF ExponentOf(regs["y"]) < -65 THEN PowOne
                 ELSE IF ExponentOf(regs["y"]) >= 63
                 THEN (IF regs["y"].neg THEN Underflow ELSE Overflow)
                 ELSE PowMul
           [] k = 2 ->
                 IF ExponentOf(regs["ehi"]) < -54 THEN ExpOne
                 ELSE IF ExponentOf(regs["ehi"]) >= 10
                 THEN (IF regs["ehi"].neg THEN Underflow ELSE Overflow)
                 ELSE ExpReduce
           [] k = 3 ->
                 ExpPoly \o (IF ExponentOf(regs["ehi"]) < 9 THEN ExpScale
                             ELSE IF regs["kd"].neg THEN ExpSmall
                             ELSE ExpBig)
           [] k = 4 ->
                 (IF ExponentOf(regs["y1"]) < 0 THEN ExpSmallRound ELSE <<>>) \o ExpSmallEnd

\* the k-th part of log10(x) for the double x from 0.5 to 2 with the 53
\* digits m: log() is 0 for 1 and the polynomial B from 1 - 2 ** -4 to
\* 1 + 265 * 2 ** -12, which is 4361 for the first 13 digits of m
LogStage(m, e, k) ==
    CASE k = 1 ->
             IF m = BigShl(<<1>>, 52) /\ e = -52 THEN LogOne
             ELSE IF \/ e = -53 /\ m[4] >= 240
                     \/ e = -52 /\ m[4] * 32 + (m[3] \div 1024) < 4361
             THEN LogNear
             ELSE LogMain
      [] k = 2 -> Log10End
      [] OTHER -> <<>>

\* the k-th part of the function fn of the library
Stage(fn, regs, k) ==
    IF fn = "pow" THEN PowStage(regs, k) ELSE LogStage(regs["x"].m, regs["x"].e, k)

\* the parts of fn from the k-th on, S the set of the one regs before them
RECURSIVE StagesFrom(_, _, _)
StagesFrom(S, fn, k) ==
    IF k > 4 THEN S
    ELSE StagesFrom({Run(regs, Stage(fn, regs, k)) : regs \in S}, fn, k + 1)

\* the result of the function fn of the library from its arguments and
\* constants
Library(fn, regs) == Only(StagesFrom({regs}, fn, 1))["result"]

\* the variables of log10() for the double 2 ** k * m * 2 ** -52 with the 53
\* digits m, the first eight of them top: for k < 0 the library takes one
\* more factor of two out, i = 1, and log() is of x = m * 2 ** (-52 - i).
\* For log() x is 2 ** kd * z for z from 0.6875 to 1.375, which is below 1
\* from top = 176, and the interval of z in the table is top - 176 or
\* top - 48
Log10Regs(m, k, i, top) ==
    ("x" :> Dbl(FALSE, m, -52 - i))
        @@ ("y" :> SignedOfInt(k + i))
        @@ ("z" :> Dbl(FALSE, m, IF top >= 176 THEN -53 ELSE -52))
        @@ ("kd" :> SignedOfInt((IF top >= 176 THEN 1 ELSE 0) - i))
        @@ ("invc" :> LogTab[(IF top >= 176 THEN top - 176 ELSE top - 48) + 1][1])
        @@ ("logc" :> LogTab[(IF top >= 176 THEN top - 176 ELSE top - 48) + 1][2])
        @@ LogData

\* the variables of log10() for the double with the 53 digits m and the
\* exponent k
Log10Scaled(m, k) == Log10Regs(m, k, IF k < 0 THEN 1 ELSE 0, m[4])

\* the variables of pow(10.0, y)
Pow10Regs(y) == ("y" :> y) @@ ("loghi" :> Ln10["y"]) @@ ("loglo" :> Ln10["tail"]) @@ ExpData

\* log10() or pow(10.0, .) of the library for the sign and the double b of
\* the argument, other than zero
LibraryOf(fn, neg, b) ==
    FromSigned(Library(fn, IF fn = "pow" THEN Pow10Regs(Dbl(neg, b.m, b.e))
                           ELSE Log10Scaled(Mantissa(b.m), ExponentOf(b))))

\* log10(x) for a finite x > 0, as the C library's log10() returns it
Log10Value(x) == LibraryOf("log10", FALSE, ToBinary(x))

\* 10.0 ** y as the C library's pow() returns it
Pow10Value(y) ==
    IF y.kind = "nan" THEN NaN
    ELSE IF y.kind = "inf" THEN PosInf
    ELSE IF y.kind = "ninf" THEN Zero(FALSE)
    ELSE IF IsZero(y) THEN Float(FALSE, <<1>>, 1)
    ELSE LibraryOf("pow", y.neg, ToBinary(y))

\* the result [val, exc] of an expression that returns v, and of one that
\* raises e
Value(v) == [val |-> v, exc |-> None]
Fault(e) == [val |-> NaN, exc |-> Some(e)]

\* math.log10(x): [val, exc]
log10(x) ==
    IF x.kind = "nan" THEN Value(NaN)
    ELSE IF x.kind = "inf" THEN Value(PosInf)
    ELSE IF x.kind = "ninf" \/ x.neg \/ IsZero(x)
    THEN Fault(ValueError("math domain error"))
    ELSE Value(Log10Value(x))

\* np.log10(x): NaN below zero, minus infinity for zero
np_log10(x) ==
    IF x.kind = "nan" \/ x.kind = "ninf" THEN NaN
    ELSE IF x.kind = "inf" THEN PosInf
    ELSE IF IsZero(x) THEN NegInf
    ELSE IF x.neg THEN NaN
    ELSE Log10Value(x)

\* a power p of ten to the y: Python raises OverflowError when the power of
\* a finite y is infinite
Overflowing(y, p, e) == IF y.kind = "num" /\ p.kind = "inf" THEN Fault(e) ELSE Value(p)

\* math.pow(10.0, y): [val, exc]
pow10(y) == Overflowing(y, Pow10Value(y), OverflowError("math range error"))

\* 10 ** y for a Python float y: [val, exc]
Power10(y) == Overflowing(y, Pow10Value(y), OverflowError("Numerical result out of range"))

\* a / b for Python floats: [val, exc]
TrueDiv(a, b) ==
    IF IsZero(b) THEN Fault(ZeroDivisionError("float division by zero"))
    ELSE Value(FDiv(a, b))

\* (600 * 1e-3) ** 0.5
SqrtOfImpedance == Float(FALSE, <<7, 7, 4, 5, 9, 6, 6, 6, 9, 2, 4, 1, 4, 8, 3, 4>>, 0)

\* 2 ** 0.5, and sqrt(2) of the math module
SqrtOfTwo == Float(FALSE, <<1, 4, 1, 4, 2, 1, 3, 5, 6, 2, 3, 7, 3, 0, 9, 5, 1>>, 1)

\* Called(name, args) is the value of the call name(**args) of a helper, defined
\* with Invoke below
RECURSIVE Called(_, _)

\* workbench.utils.dbu_to_vrms: 10 ** (x / 20) * (600 * 1e-3) ** 0.5, as
\* [val, exc].  x is a Python float, or a numpy.float64 (scalar), whose
\* power overflows to an infinity without an exception
dbu_to_vrms(x, scalar) ==
    LET Scaled(power) ==
            IF power.exc # None THEN power
            ELSE Value(Called("FMul", [a |-> power.val, b |-> SqrtOfImpedance]))
    IN  Scaled(IF scalar THEN Value(Called("Pow10Value",
                                            [y |-> Called("FDiv", [a |-> x, b |-> Num(20000)])]))
               ELSE Called("Power10", [y |-> Called("FDiv", [a |-> x, b |-> Num(20000)])]))

\* workbench.utils.vrms_to_vpp: x * 2 * 2 ** 0.5
vrms_to_vpp(x) == Called("FMul",
                          [a |-> Called("FMul", [a |-> x, b |-> Float(FALSE, <<2>>, 1)]),
                           b |-> SqrtOfTwo])

\* workbench.utils.vrms_to_dbu: 20 * np.log10(x / (600 * 1e-3) ** 0.5)
vrms_to_dbu(x) == Called("FMul",
                          [a |-> Float(FALSE, <<2>>, 2),
                           b |-> Called("np_log10", [x |-> Called("FDiv", [a |-> x, b |-> SqrtOfImpedance])])])

\* workbench.utils.vpp_to_vrms: x / (2 * 2 ** 0.5)
vpp_to_vrms(x) == Called("FDiv",
                          [a |-> x,
                           b |-> Called("FMul", [a |-> Float(FALSE, <<2>>, 1), b |-> SqrtOfTwo])])

(***************************************************************************)
(* Regular expressions (re.match with re.IGNORECASE).  A position is an    *)
(* index into the command, 0 meaning that the match has failed.            *)
(***************************************************************************)
HasAt(s, i, lit) ==
    /\ i > 0
    /\ i + Len(lit) - 1 <= Len(s)
    /\ \A j \in 1..Len(lit) : UpperChar(s[i + j - 1]) = Ord(lit[j])

\* a literal
Lit(s, i, lit) == IF HasAt(s, i, lit) THEN i + Len(lit) ELSE 0

\* (?:literal)?
Opt(s, i, lit) == IF HasAt(s, i, lit) THEN i + Len(lit) ELSE i

\* \s+
Spaces1(s, i) == IF i > 0 /\ SkipSpaces(s, i) > i THEN SkipSpaces(s, i) ELSE 0

\* \d+
Digits1(s, i) == IF i > 0 /\ SkipDigits(s, i) > i THEN SkipDigits(s, i) ELSE 0

\* \S+
NonSpaces1(s, i) == IF i > 0 /\ SkipNonSpaces(s, i) > i THEN SkipNonSpaces(s, i) ELSE 0

\* $ : the end of the string, or just before a final newline
AtEnd(s, i) == i > 0 /\ (i = Len(s) + 1 \/ (i = Len(s) /\ s[i] = 10))

NoMatch == [matched |-> FALSE, groups |-> <<>>]
Matched(groups) == [matched |-> TRUE, groups |-> groups]

\* a pattern that is a fixed text: ^text$
MatchText(s, lit) == IF AtEnd(s, Lit(s, 1, lit)) THEN Matched(<<>>) ELSE NoMatch

\* the text of a group that spans [a, b), None when the group is empty
Group(s, a, b) == IF b > a THEN Some(SubSeq(s, a, b - 1)) ELSE None

\* (\d+)$ from position a
DigitsToEnd(s, a) ==
    IF AtEnd(s, Digits1(s, a)) THEN Matched(<<Group(s, a, Digits1(s, a))>>) ELSE NoMatch

\* ^\*SRE\s+(\d+)$
MatchSreSet(s) == DigitsToEnd(s, Spaces1(s, Lit(s, 1, <<"*", "S", "R", "E">>)))

\* ^SYST(?:em)?:ERR(?:or)?\?$
MatchSystemError(s) ==
    IF AtEnd(s, Lit(s, Opt(s, Lit(s, Opt(s, Lit(s, 1, <<"S", "Y", "S", "T">>),
                                          <<"E", "M">>),
                                   <<":", "E", "R", "R">>),
                            <<"O", "R">>),
                    <<"?">>))
    THEN Matched(<<>>) ELSE NoMatch

\* SOUR(?:ce)? : the position after it
SourName(s) == Opt(s, Lit(s, 1, <<"S", "O", "U", "R">>), <<"C", "E">>)

\* (?:SOUR(?:ce)?(\d+)?:)? : the position after the prefix, 1 when the
\* prefix is absent
SourEnd(s, a) ==
    IF a > 0 /\ Lit(s, SkipDigits(s, a), <<":">>) > 0
    THEN Lit(s, SkipDigits(s, a), <<":">>)
    ELSE 1

\* the (\d+)? group of the prefix
SourChannel(s, a) ==
    IF a > 0 /\ Lit(s, SkipDigits(s, a), <<":">>) > 0
    THEN Group(s, a, SkipDigits(s, a))
    ELSE None

\* (\S+)$ from position a, after the group chan
ArgToEnd(s, chan, a) ==
    IF AtEnd(s, NonSpaces1(s, a))
    THEN Matched(<<chan, Group(s, a, NonSpaces1(s, a))>>)
    ELSE NoMatch

SkipWords(s, i) ==
    CHOOSE j \in i..(Len(s) + 1) :
        (j = Len(s) + 1 \/ ~IsWord(s[j])) /\ \A k \in i..(j - 1) : IsWord(s[k])

\* \w+
Words1(s, i) == IF i > 0 /\ SkipWords(s, i) > i THEN SkipWords(s, i) ELSE 0

\* (\w+)$ from position a, after the group chan
WordToEnd(s, chan, a) ==
    IF AtEnd(s, Words1(s, a))
    THEN Matched(<<chan, Group(s, a, Words1(s, a))>>)
    ELSE NoMatch

\* (?:\s+(\S+))?$ from position a, after the group chan
OptArgToEnd(s, chan, a) ==
    IF AtEnd(s, NonSpaces1(s, Spaces1(s, a)))
    THEN Matched(<<chan, Group(s, Spaces1(s, a), NonSpaces1(s, Spaces1(s, a)))>>)
    ELSE IF AtEnd(s, a) THEN Matched(<<chan, None>>)
    ELSE NoMatch

\* \?$ from position a, after the group chan
QueryToEnd(s, chan, a) ==
    IF AtEnd(s, Lit(s, a, <<"?">>)) THEN Matched(<<chan>>) ELSE NoMatch

\* (ON|OFF|[01]) from position a: the position after the first alternative
\* that ends the line, 0 when none does
Switch(s, a) ==
    IF AtEnd(s, Lit(s, a, <<"O", "N">>)) THEN Lit(s, a, <<"O", "N">>)
    ELSE IF AtEnd(s, Lit(s, a, <<"O", "F", "F">>)) THEN Lit(s, a, <<"O", "F", "F">>)
    ELSE IF a > 0 /\ a <= Len(s) /\ s[a] \in {Ord("0"), Ord("1")} /\ AtEnd(s, a + 1)
    THEN a + 1
    ELSE 0

\* (ON|OFF|[01])$ from position a, after the group chan
SwitchToEnd(s, chan, a) ==
    IF Switch(s, a) > 0 THEN Matched(<<chan, Group(s, a, Switch(s, a))>>) ELSE NoMatch

\* OUTP(?:ut)? : the position after it
OutpName(s) == Opt(s, Lit(s, 1, <<"O", "U", "T", "P">>), <<"U", "T">>)

\* the (\d+)? group after the position a
Suffix(s, a) == IF a > 0 THEN Group(s, a, SkipDigits(s, a)) ELSE None

\* the position after the (\d+)? group that starts at a
SuffixEnd(s, a) == IF a > 0 THEN SkipDigits(s, a) ELSE 0

\* ^OUTP(?:ut)?(\d+)?\s+(ON|OFF|[01])$
MatchOutputSet(s) ==
    SwitchToEnd(s, Suffix(s, OutpName(s)), Spaces1(s, SuffixEnd(s, OutpName(s))))

\* ^OUTP(?:ut)?(\d+)?\?$
MatchOutputGet(s) ==
    QueryToEnd(s, Suffix(s, OutpName(s)), SuffixEnd(s, OutpName(s)))

\* (?:SOUR(?:ce)?(\d+)?:)?FUNC(?:tion)? : the position after it
FuncName(s) ==
    Opt(s, Lit(s, SourEnd(s, SourName(s)), <<"F", "U", "N", "C">>), <<"T", "I", "O", "N">>)

\* (?:SOUR(?:ce)?(\d+)?:)?FREQ(?:uency)? : the position after it
FreqName(s) ==
    Opt(s, Lit(s, SourEnd(s, SourName(s)), <<"F", "R", "E", "Q">>), <<"U", "E", "N", "C", "Y">>)

\* (?:SOUR(?:ce)?(\d+)?:)?VOLT(?:age)? : the position after it
VoltName(s) ==
    Opt(s, Lit(s, SourEnd(s, SourName(s)), <<"V", "O", "L", "T">>), <<"A", "G", "E">>)

\* (?:SOUR(?:ce)?(\d+)?:)?VOLT(?:age)?:OFFS(?:et)? : the position after it
OffsName(s) == Opt(s, Lit(s, VoltName(s), <<":", "O", "F", "F", "S">>), <<"E", "T">>)

\* (?:SOUR(?:ce)?(\d+)?:)?VOLT(?:age)?:CAL(?:ibration)? : the position after it
CalName(s) ==
    Opt(s, Lit(s, VoltName(s), <<":", "C", "A", "L">>),
        <<"I", "B", "R", "A", "T", "I", "O", "N">>)

\* (?:SOUR(?:ce)?(\d+)?:)?FUNC(?:tion)?:RAMP:SYMM(?:etry)? : the position
\* after it
SymmName(s) ==
    Opt(s, Lit(s, Lit(s, FuncName(s), <<":", "R", "A", "M", "P">>), <<":", "S", "Y", "M", "M">>),
        <<"E", "T", "R", "Y">>)

\* (?:SOUR(?:ce)?(\d+)?:)?PHAS(?:e)? : the position after it
PhasName(s) == Opt(s, Lit(s, SourEnd(s, SourName(s)), <<"P", "H", "A", "S">>), <<"E">>)

\* (?:SOUR(?:ce)?(\d+)?:)?PER(?:iod)? : the position after it
PerName(s) == Opt(s, Lit(s, SourEnd(s, SourName(s)), <<"P", "E", "R">>), <<"I", "O", "D">>)

\* (?:SOUR(?:ce)?(\d+)?:)?FUNC(?:tion)?:SQU(?:are):DCYC(?:le)? : the position
\* after it
DcycName(s) ==
    Opt(s, Lit(s, Lit(s, FuncName(s), <<":", "S", "Q", "U", "A", "R", "E">>),
               <<":", "D", "C", "Y", "C">>),
        <<"L", "E">>)

\* (?:SOUR(?:ce)?(\d+)?:)?FUNC(?:tion)?:PUL(?:se):PWID(?:th)? : the position
\* after it
PwidName(s) ==
    Opt(s, Lit(s, Lit(s, FuncName(s), <<":", "P", "U", "L", "S", "E">>),
               <<":", "P", "W", "I", "D">>),
        <<"T", "H">>)

\* (?:SOUR(?:ce)?(\d+)?:)?FUNC(?:tion):SWE(?:ep):FREQ(?:uency)? : the position
\* after it
SweepFreqName(s) ==
    Opt(s, Lit(s, Lit(s, Lit(s, SourEnd(s, SourName(s)),
                            <<"F", "U", "N", "C", "T", "I", "O", "N">>),
                      <<":", "S", "W", "E", "E", "P">>),
               <<":", "F", "R", "E", "Q">>),
        <<"U", "E", "N", "C", "Y">>)

\* ... :STAR(?:t)? : the position after it
SweepStartName(s) == Opt(s, Lit(s, SweepFreqName(s), <<":", "S", "T", "A", "R">>), <<"T">>)

\* ... :STOP : the position after it
SweepStopName(s) == Lit(s, SweepFreqName(s), <<":", "S", "T", "O", "P">>)

\* (?:SOUR(?:ce)?(\d+)?:)?FUNC(?:tion)?:SWE(?:ep)?:TIME : the position after it
SweepTimeName(s) ==
    Lit(s, Opt(s, Lit(s, FuncName(s), <<":", "S", "W", "E">>), <<"E", "P">>),
        <<":", "T", "I", "M", "E">>)

\* ^(?:SOUR(?:ce)?(\d+)?:)?FUNC(?:tion)?\s+(\w+)$
MatchFunctionSet(s) ==
    WordToEnd(s, SourChannel(s, SourName(s)), Spaces1(s, FuncName(s)))

\* ^(?:SOUR(?:ce)?(\d+)?:)?FUNC(?:tion)?\?$
MatchFunctionGet(s) == QueryToEnd(s, SourChannel(s, SourName(s)), FuncName(s))

\* ^(?:SOUR(?:ce)?(\d+)?:)?FREQ(?:uency)?\s+(\S+)$
MatchFrequencySet(s) ==
    ArgToEnd(s, SourChannel(s, SourName(s)), Spaces1(s, FreqName(s)))

\* ^(?:SOUR(?:ce)?(\d+)?:)?FREQ(?:uency)?\?(?:\s+(\S+))?$
MatchFrequencyGet(s) ==
    OptArgToEnd(s, SourChannel(s, SourName(s)), Lit(s, FreqName(s), <<"?">>))

\* ^(?:SOUR(?:ce)?(\d+)?:)?VOLT(?:age)?\s+(\S+)$
MatchVoltageSet(s) ==
    ArgToEnd(s, SourChannel(s, SourName(s)), Spaces1(s, VoltName(s)))

\* ^(?:SOUR(?:ce)?(\d+)?:)?VOLT(?:age)?\?(?:\s+(\S+))?$
MatchVoltageGet(s) ==
    OptArgToEnd(s, SourChannel(s, SourName(s)), Lit(s, VoltName(s), <<"?">>))

\* ^(?:SOUR(?:ce)?(\d+)?:)?VOLT(?:age)?:UNIT\s+(\w+)$
MatchVoltageUnitSet(s) ==
    WordToEnd(s, SourChannel(s, SourName(s)),
              Spaces1(s, Lit(s, VoltName(s), <<":", "U", "N", "I", "T">>)))

\* ^(?:SOUR(?:ce)?(\d+)?:)?VOLT(?:age)?:UNIT\?$
MatchVoltageUnitGet(s) ==
    QueryToEnd(s, SourChannel(s, SourName(s)), Lit(s, VoltName(s), <<":", "U", "N", "I", "T">>))

\* ^(?:SOUR(?:ce)?(\d+)?:)?VOLT(?:age)?:OFFS(?:et)?\s+(\S+)$
MatchOffsetSet(s) ==
    ArgToEnd(s, SourChannel(s, SourName(s)), Spaces1(s, OffsName(s)))

\* ^(?:SOUR(?:ce)?(\d+)?:)?VOLT(?:age)?:OFFS(?:et)?\?(?:\s+(\S+))?$
MatchOffsetGet(s) ==
    OptArgToEnd(s, SourChannel(s, SourName(s)), Lit(s, OffsName(s), <<"?">>))

\* ^(?:SOUR(?:ce)?(\d+)?:)?VOLT(?:age)?:CAL(?:ibration)?\s+(\S+)$
MatchCalibrationSet(s) ==
    ArgToEnd(s, SourChannel(s, SourName(s)), Spaces1(s, CalName(s)))

\* ^(?:SOUR(?:ce)?(\d+)?:)?VOLT(?:age)?:CAL(?:ibration)?\?(?:\s+(\S+))?$
MatchCalibrationGet(s) ==
    OptArgToEnd(s, SourChannel(s, SourName(s)), Lit(s, CalName(s), <<"?">>))

\* ^(?:SOUR(?:ce)?(\d+)?:)?FUNC(?:tion)?:RAMP:SYMM(?:etry)?\s+(\S+)$
MatchAsymmetrySet(s) ==
    ArgToEnd(s, SourChannel(s, SourName(s)), Spaces1(s, SymmName(s)))

\* ^(?:SOUR(?:ce)?(\d+)?:)?FUNC(?:tion)?:RAMP:SYMM(?:etry)?\?(?:\s+(\S+))?$
MatchAsymmetryGet(s) ==
    OptArgToEnd(s, SourChannel(s, SourName(s)), Lit(s, SymmName(s), <<"?">>))

\* ^(?:SOUR(?:ce)?(\d+)?:)?PHAS(?:e)?\s+(\S+)$
MatchPhaseSet(s) ==
    ArgToEnd(s, SourChannel(s, SourName(s)), Spaces1(s, PhasName(s)))

\* ^(?:SOUR(?:ce)?(\d+)?:)?PHAS(?:e)?\?(?:\s+(\S+))?$
MatchPhaseGet(s) ==
    OptArgToEnd(s, SourChannel(s, SourName(s)), Lit(s, PhasName(s), <<"?">>))

\* ^(?:SOUR(?:ce)?(\d+)?:)?PER(?:iod)?\s+(\S+)$
MatchPeriodSet(s) ==
    ArgToEnd(s, SourChannel(s, SourName(s)), Spaces1(s, PerName(s)))

\* ^(?:SOUR(?:ce)?(\d+)?:)?PER(?:iod)?\?(?:\s+(\S+))?$
MatchPeriodGet(s) ==
    OptArgToEnd(s, SourChannel(s, SourName(s)), Lit(s, PerName(s), <<"?">>))

\* ^(?:SOUR(?:ce)?(\d+)?:)?FUNC(?:tion)?:SQU(?:are):DCYC(?:le)?\s+(\S+)$
MatchDutyCycleSet(s) ==
    ArgToEnd(s, SourChannel(s, SourName(s)), Spaces1(s, DcycName(s)))

\* ^(?:SOUR(?:ce)?(\d+)?:)?FUNC(?:tion)?:SQU(?:are):DCYC(?:le)?\?(?:\s+(\S+))?$
MatchDutyCycleGet(s) ==
    OptArgToEnd(s, SourChannel(s, SourName(s)), Lit(s, DcycName(s), <<"?">>))

\* ^(?:SOUR(?:ce)?(\d+)?:)?FUNC(?:tion)?:PUL(?:se):PWID(?:th)?\s+(\S+)$
MatchPulseWidthSet(s) ==
    ArgToEnd(s, SourChannel(s, SourName(s)), Spaces1(s, PwidName(s)))

\* ^(?:SOUR(?:ce)?(\d+)?:)?FUNC(?:tion)?:PUL(?:se):PWID(?:th)?\?(?:\s+(\S+))?$
MatchPulseWidthGet(s) ==
    OptArgToEnd(s, SourChannel(s, SourName(s)), Lit(s, PwidName(s), <<"?">>))

\* ^(?:SOUR(?:ce)?(\d+)?:)?FUNC(?:tion):SWE(?:ep):FREQ(?:uency)?:STAR(?:t)?\s+(\S+)$
MatchSweepStartSet(s) ==
    ArgToEnd(s, SourChannel(s, SourName(s)), Spaces1(s, SweepStartName(s)))

\* ^(?:SOUR(?:ce)?(\d+)?:)?FUNC(?:tion):SWE(?:ep):FREQ(?:uency)?:STAR(?:t)?\?(?:\s+(\S+))?$
MatchSweepStartGet(s) ==
    OptArgToEnd(s, SourChannel(s, SourName(s)), Lit(s, SweepStartName(s), <<"?">>))

\* ^(?:SOUR(?:ce)?(\d+)?:)?FUNC(?:tion):SWE(?:ep):FREQ(?:uency)?:STOP\s+(\S+)$
MatchSweepStopSet(s) ==
    ArgToEnd(s, SourChannel(s, SourName(s)), Spaces1(s, SweepStopName(s)))

\* ^(?:SOUR(?:ce)?(\d+)?:)?FUNC(?:tion):SWE(?:ep):FREQ(?:uency)?:STOP\?(?:\s+(\S+))?$
MatchSweepStopGet(s) ==
    OptArgToEnd(s, SourChannel(s, SourName(s)), Lit(s, SweepStopName(s), <<"?">>))

\* ^(?:SOUR(?:ce)?(\d+)?:)?FUNC(?:tion)?:SWE(?:ep)?:TIME\s+(\S+)$
MatchSweepTimeSet(s) ==
    ArgToEnd(s, SourChannel(s, SourName(s)), Spaces1(s, SweepTimeName(s)))

\* ^(?:SOUR(?:ce)?(\d+)?:)?FUNC(?:tion)?:SWE(?:ep)?:TIME\?(?:\s+(\S+))?$
MatchSweepTimeGet(s) ==
    OptArgToEnd(s, SourChannel(s, SourName(s)), Lit(s, SweepTimeName(s), <<"?">>))

(***************************************************************************)
(* The instrument.  self is the record of the fields of the instrument     *)
(* and of its audio interface; a method returns [self, ret, exc]: the      *)
(* fields after the call, the returned value, and the raised exception     *)
(* (None when the method returns normally).                                *)
(***************************************************************************)
Self == [esr |-> esr, sre |-> sre, errors |-> errors, output_config |-> output_config]

\* the identity string given to the constructor
Identity == "workbench,signal-generator,0,1.0"

Return(self, v) == [self |-> self, ret |-> v, exc |-> None]
Raise(self, e) == [self |-> self, ret |-> None, exc |-> Some(e)]

\* the ValueError of int(), raised for a text that is not an integer and
\* for one of more than 4300 digits: the message, which holds repr() of the
\* text or the limit, is left out
InvalidLiteral == ValueError("invalid literal for int() with base 10")

\* int(mask) & 0xFF: [val, exc]
Masked(mask) ==
    IF mask = None THEN [val |-> 0, exc |-> Some(InvalidLiteral)]
    ELSE [val |-> LowByte(Head(mask)), exc |-> None]

\* self.sre = value; return ""
StoreSre(self, value) ==
    IF value.exc # None THEN Raise(self, Head(value.exc))
    ELSE Return([self EXCEPT !.sre = value.val], Some(""))

\* a variant of ErrorBit with the class boundaries on the wrong side
\* (-200 < code <= -100 taken as -200 <= code < -100, and so on)
ErrorBit_shifted(code) ==
    IF code < -100 /\ code >= -200 THEN ESR_CMD_ERROR
    ELSE IF code < -200 /\ code >= -300 THEN ESR_EXEC_ERROR
    ELSE IF code < -300 /\ code >= -400 THEN ESR_DDE_ERROR
    ELSE IF code < -400 THEN ESR_QUERY_ERROR
    ELSE ESR_EXEC_ERROR

\* the ESR bit of an error code
ErrorBit(code) ==
    IF code <= -100 /\ code > -200 THEN ESR_CMD_ERROR
    ELSE IF code <= -200 /\ code > -300 THEN ESR_EXEC_ERROR
    ELSE IF code <= -300 /\ code > -400 THEN ESR_DDE_ERROR
    ELSE IF code <= -400 THEN ESR_QUERY_ERROR
    ELSE ESR_EXEC_ERROR

push_error(self, code, message) ==
    [self EXCEPT !.errors = Append(@, <<code, message>>),
                 !.esr = BitOr(@, ErrorBit(code))]

get_identity(self) == Return(self, Some(Identity))

\* a variant of get_operation_complete that assigns the bit instead of
\* adding it
get_operation_complete_assigning(self) ==
    Return([self EXCEPT !.esr = ESR_OPC], Some("1"))

get_operation_complete(self) ==
    Return([self EXCEPT !.esr = BitOr(@, ESR_OPC)], Some("1"))

\* a variant of clear_status that empties the queue but keeps ESR
clear_status_keeping_esr(self) ==
    Return([self EXCEPT !.errors = <<>>], None)

clear_status(self) ==
    Return([self EXCEPT !.errors = <<>>, !.esr = 0], None)

\* a variant of esr_query that reads ESR without clearing it
esr_query_peeking(self) ==
    Return(self, Some(IntToStr(self.esr)))

esr_query(self) ==
    Return([self EXCEPT !.esr = 0], Some(IntToStr(self.esr)))

sre_set(self, mask) == StoreSre(self, Masked(ParseInt(mask)))

sre_query(self) == Return(self, Some(IntToStr(self.sre)))

\* a variant of stb_query that ignores the SRE mask
stb_query_unmasked(self) ==
    Return(self, Some(IntToStr(IF self.esr # 0 THEN STB_ESB ELSE 0)))

stb_query(self) ==
    Return(self, Some(IntToStr(IF BitAnd(self.esr, self.sre) # 0 THEN STB_ESB ELSE 0)))

\* a variant of get_system_error that pops the newest entry (a stack)
get_system_error_newest(self) ==
    LET n == Len(self.errors)
        entry == IF n > 0 THEN self.errors[n] ELSE <<0, "No error">>
        rest == IF n > 0 THEN SubSeq(self.errors, 1, n - 1) ELSE self.errors
    IN  Return([self EXCEPT !.errors = rest],
               Some(IntToStr(entry[1]) \o ",\"" \o entry[2] \o "\""))

get_system_error(self) ==
    LET entry == IF Len(self.errors) > 0 THEN Head(self.errors) ELSE <<0, "No error">>
        rest == IF Len(self.errors) > 0 THEN Tail(self.errors) ELSE self.errors
    IN  Return([self EXCEPT !.errors = rest],
               Some(IntToStr(entry[1]) \o ",\"" \o entry[2] \o "\""))

(***************************************************************************)
(* The audio interface and the signal generator personality.               *)
(***************************************************************************)
\* the sample_rate given to AudioInterface.__init__
SampleRate == 48000

\* AudioInterface.get_default_channel_config: ChannelConfig(sample_rate),
\* a waveform and a voltage unit being the value of the enumeration member
get_default_channel_config ==
    [sample_rate |-> SampleRate, waveform |-> "sine", frequency_hz |-> Num(1000000),
     amplitude_fs |-> Num(1000), dc_offset_fs |-> Zero(FALSE), asymmetry |-> Num(500),
     phase_deg |-> Zero(FALSE), voltage_unit |-> "dbfs", calibration_vrms_at_fs |-> None,
     output_enabled |-> FALSE, sweep_start_frequency_hz |-> Num(200000),
     sweep_stop_frequency_hz |-> Num(20000000), sweep_duration_s |-> Num(1000)]

\* the result [config, exc] of a property setter that stores and of one
\* that raises e
Assigned(config) == [config |-> config, exc |-> None]
Refused(config, e) == [config |-> config, exc |-> Some(e)]

\* AudioInterface.reset
AudioInterface_reset(self) ==
    [self EXCEPT !.output_config = [i \in 1..OutputChannels |-> get_default_channel_config]]

\* ScpiInstrument.reset
ScpiInstrument_reset(self) == clear_status(self)

\* a variant of reset that does not reach the audio interface, as the
\* base class's reset bound to the pattern would
reset_base_only(self) == Return(ScpiInstrument_reset(self).self, None)

\* ScpiSignalGenerator.reset: super().reset(), then audio_interface.reset()
reset(self) == Return(AudioInterface_reset(ScpiInstrument_reset(self).self), None)

\* ChannelConfig.period (getter)
period(config) ==
    IF FLe(config.frequency_hz, Zero(FALSE)) THEN PosInf
    ELSE Called("FDiv", [a |-> Num(1000), b |-> config.frequency_hz])

\* ChannelConfig.period (setter): [config, exc]
set_period(config, period_seconds) ==
    IF FLe(period_seconds, Zero(FALSE))
    THEN Refused(config, ValueError("Period must be > 0"))
    ELSE Assigned([config EXCEPT !.frequency_hz = Called("FDiv",
                                                          [a |-> Num(1000),
                                                           b |-> period_seconds])])

\* ChannelConfig.duty_cycle (getter): asymmetry * 100.0
duty_cycle(config) == Called("FMul", [a |-> config.asymmetry, b |-> Num(100000)])

\* ChannelConfig.duty_cycle (setter): [ok, config]
set_duty_cycle(config, percent) ==
    IF ~(FLe(Num(0), percent) /\ FLe(percent, Num(100000)))
    THEN [ok |-> FALSE, config |-> config]
    ELSE [ok |-> TRUE, config |-> [config EXCEPT !.asymmetry = Called("FDiv",
                                                                       [a |-> percent,
                                                                        b |-> Num(100000)])]]

\* ChannelConfig.skew (getter): asymmetry * 100.0
skew(config) == Called("FMul", [a |-> config.asymmetry, b |-> Num(100000)])

\* ChannelConfig.skew (setter): [ok, config]
set_skew(config, percent) ==
    IF ~(FLe(Num(0), percent) /\ FLe(percent, Num(100000)))
    THEN [ok |-> FALSE, config |-> config]
    ELSE [ok |-> TRUE, config |-> [config EXCEPT !.asymmetry = Called("FDiv",
                                                                       [a |-> percent,
                                                                        b |-> Num(100000)])]]

\* ChannelConfig.voltage (getter) of a calibrated channel, vrms its
\* amplitude_fs * calibration_vrms_at_fs
voltage_of_vrms(config, vrms) ==
    IF config.voltage_unit = "vrms" THEN [val |-> vrms, exc |-> None]
    ELSE IF config.voltage_unit = "dbu" THEN [val |-> vrms_to_dbu(vrms), exc |-> None]
    ELSE IF config.voltage_unit = "vpp" THEN [val |-> vrms_to_vpp(vrms), exc |-> None]
    ELSE [val |-> NaN, exc |-> Some(ValueError("Unknown voltage unit"))]

\* 20.0 * log10(amplitude_fs): [val, exc]
decibels(logarithm) ==
    IF logarithm.exc # None THEN logarithm
    ELSE Value(Called("FMul", [a |-> Float(FALSE, <<2>>, 2), b |-> logarithm.val]))

\* ChannelConfig.voltage (getter): [val, exc]
voltage(config) ==
    IF config.voltage_unit = "dbfs"
    THEN IF FLe(config.amplitude_fs, Num(0)) THEN [val |-> NegInf, exc |-> None]
         ELSE decibels(Called("log10", [x |-> config.amplitude_fs]))
    ELSE IF config.calibration_vrms_at_fs = None
    THEN [val |-> NaN, exc |-> Some(ValueError("Not calibrated"))]
    ELSE voltage_of_vrms(config, Called("FMul",
                                         [a |-> config.amplitude_fs,
                                          b |-> Head(config.calibration_vrms_at_fs)]))

\* the end of the voltage setter of a calibrated channel: amplitude_fs =
\* vrms / calibration_vrms_at_fs, vrms the result [val, exc] of the
\* conversion.  A numpy.float64 (scalar) divides by zero without an exception
amplitude_stored(config, vrms, scalar) ==
    LET Divided(amplitude) ==
            IF amplitude.exc # None THEN Refused(config, amplitude.exc[1])
            ELSE Assigned([config EXCEPT !.amplitude_fs = amplitude.val])
    IN  IF vrms.exc # None THEN Refused(config, vrms.exc[1])
        ELSE Divided(IF scalar THEN Value(Called("FDiv",
                                                  [a |-> vrms.val,
                                                   b |-> config.calibration_vrms_at_fs[1]]))
                     ELSE Called("TrueDiv",
                                  [a |-> vrms.val,
                                   b |-> config.calibration_vrms_at_fs[1]]))

\* ChannelConfig.voltage (setter): [config, exc].  scalar: the voltage is a
\* numpy.float64, as the results of vrms_to_dbu are
set_voltage(config, volts, scalar) ==
    LET Powered(amplitude) ==
            IF amplitude.exc # None THEN Refused(config, amplitude.exc[1])
            ELSE Assigned([config EXCEPT !.amplitude_fs = amplitude.val])
    IN  IF config.voltage_unit = "dbfs" THEN Powered(Called("pow10",
                                                             [y |-> Called("FDiv", [a |-> volts, b |-> Num(20000)])]))
        ELSE IF config.calibration_vrms_at_fs = None
        THEN Refused(config, ValueError("Not calibrated"))
        ELSE IF config.voltage_unit = "vrms" THEN amplitude_stored(config, Value(volts), FALSE)
        ELSE IF config.voltage_unit = "dbu"
        THEN amplitude_stored(config, dbu_to_vrms(volts, scalar), scalar)
        ELSE IF config.voltage_unit = "vpp"
        THEN amplitude_stored(config, Value(vpp_to_vrms(volts)), FALSE)
        ELSE Refused(config, ValueError("Unknown voltage unit"))

\* ChannelConfig.pulse_width (getter)
pulse_width(config) ==
    IF FLe(config.frequency_hz, Zero(FALSE)) THEN Zero(FALSE)
    ELSE Called("FDiv", [a |-> config.asymmetry, b |-> config.frequency_hz])

\* ChannelConfig.pulse_width (setter): [config, exc]
set_pulse_width(config, pulse_width_seconds) ==
    LET Checked(asymmetry) ==
            IF ~(FLe(Zero(FALSE), asymmetry) /\ FLe(asymmetry, Num(1000)))
            THEN Refused(config, ValueError("Pulse width exceeds period"))
            ELSE Assigned([config EXCEPT !.asymmetry = asymmetry])
    IN  IF FLt(pulse_width_seconds, Zero(FALSE))
        THEN Refused(config, ValueError("Pulse width must be >= 0"))
        ELSE IF FLe(config.frequency_hz, Zero(FALSE))
        THEN Assigned([config EXCEPT !.asymmetry = Zero(FALSE)])
        ELSE Checked(Called("FMul", [a |-> pulse_width_seconds, b |-> config.frequency_hz]))

\* ChannelConfig.calibration_vpeak_at_fs: None or Some(float)
calibration_vpeak_at_fs(config) ==
    IF config.calibration_vrms_at_fs = None THEN None
    ELSE Some(Called("FMul", [a |-> config.calibration_vrms_at_fs[1], b |-> SqrtOfTwo]))

\* ChannelConfig.dc_offset_voltage (getter)
dc_offset_voltage(config) ==
    IF calibration_vpeak_at_fs(config) = None THEN Zero(FALSE)
    ELSE Called("FMul", [a |-> config.dc_offset_fs, b |-> calibration_vpeak_at_fs(config)[1]])

\* ChannelConfig.dc_offset_voltage (setter): [config, exc]
set_dc_offset_voltage(config, volts) ==
    LET Divided(offset) ==
            IF offset.exc # None THEN Refused(config, offset.exc[1])
            ELSE Assigned([config EXCEPT !.dc_offset_fs = offset.val])
    IN  IF calibration_vpeak_at_fs(config) = None
        THEN Refused(config, ValueError("Not calibrated"))
        ELSE Divided(Called("TrueDiv", [a |-> volts, b |-> calibration_vpeak_at_fs(config)[1]]))

\* a variant of IsOneOf that compares the token as written
IsOneOf_as_written(parameter, names) == parameter \in names

\* parameter.upper() in (...)
IsOneOf(parameter, names) == Upper(parameter) \in names

MinNames == {Text(<<"M", "I", "N">>), Text(<<"M", "I", "N", "I", "M", "U", "M">>)}
MaxNames == {Text(<<"M", "A", "X">>), Text(<<"M", "A", "X", "I", "M", "U", "M">>)}
DefNames == {Text(<<"D", "E", "F">>), Text(<<"D", "E", "F", "A", "U", "L", "T">>)}

\* value = int(parameter) and the range check, value the result of
\* ParseInt and the errors those of the class: [val, exc]
IntChecked(value, minimum, maximum, check_range, not_a_number, out_of_range) ==
    IF value = None THEN [val |-> 0, exc |-> Some(not_a_number)]
    ELSE IF check_range /\ ~InRange(Head(value), minimum, maximum)
    THEN [val |-> 0, exc |-> Some(out_of_range)]
    ELSE [val |-> PyInt(Head(value)), exc |-> None]

\* value = float(parameter) and the range check, value the result of
\* ParseFloat and the errors those of the class: [val, exc]
FloatChecked(value, minimum, maximum, check_range, not_a_number, out_of_range) ==
    IF value = None THEN [val |-> NaN, exc |-> Some(not_a_number)]
    ELSE IF check_range /\ minimum # None /\ FLt(Head(value), Head(minimum))
    THEN [val |-> NaN, exc |-> Some(out_of_range)]
    ELSE IF check_range /\ maximum # None /\ FLt(Head(maximum), Head(value))
    THEN [val |-> NaN, exc |-> Some(out_of_range)]
    ELSE [val |-> Head(value), exc |-> None]

\* ScpiInstrument.get_int_parameter: [val, exc]
ScpiInstrument_get_int_parameter(parameter, minimum, maximum, default_value, check_range) ==
    IF IsOneOf(parameter, MinNames) THEN [val |-> minimum, exc |-> None]
    ELSE IF IsOneOf(parameter, MaxNames) THEN [val |-> maximum, exc |-> None]
    ELSE IF IsOneOf(parameter, DefNames) THEN [val |-> default_value, exc |-> None]
    ELSE IntChecked(ParseInt(parameter), minimum, maximum, check_range,
                    SCPIError(-102, "Command error (syntax error)"),
                    SCPIError(-102, "Command error (out of range)"))

\* ScpiInstrument.get_float_parameter: [val, exc]; minimum, maximum and
\* default_value are None or Some(float)
ScpiInstrument_get_float_parameter(parameter, minimum, maximum, default_value, check_range) ==
    LET Invalid == [val |-> NaN,
                    exc |-> Some(SCPIError(-102, "Command error (invalid argument)"))]
    IN  IF IsOneOf(parameter, MinNames)
        THEN IF minimum = None THEN Invalid ELSE [val |-> minimum[1], exc |-> None]
        ELSE IF IsOneOf(parameter, MaxNames)
        THEN IF maximum = None THEN Invalid ELSE [val |-> maximum[1], exc |-> None]
        ELSE IF IsOneOf(parameter, DefNames)
        THEN IF default_value = None THEN Invalid
             ELSE [val |-> default_value[1], exc |-> None]
        ELSE FloatChecked(ParseFloat(parameter), minimum, maximum, check_range,
                          SCPIError(-102, "Command error (syntax error)"),
                          SCPIError(-102, "Command error (out of range)"))

\* ScpiSignalGenerator.get_int_parameter: [val, exc]
get_int_parameter(parameter, minimum, maximum, default_value, check_range) ==
    IF IsOneOf(parameter, MinNames) THEN [val |-> minimum, exc |-> None]
    ELSE IF IsOneOf(parameter, MaxNames) THEN [val |-> maximum, exc |-> None]
    ELSE IF IsOneOf(parameter, DefNames) THEN [val |-> default_value, exc |-> None]
    ELSE IntChecked(ParseInt(parameter), minimum, maximum, check_range,
                    SCPIError(-104, "Data type error"),
                    SCPIError(-222, "Data out of range"))

\* ScpiSignalGenerator.get_float_parameter: [val, exc]; minimum, maximum and
\* default_value are None or Some(float)
get_float_parameter(parameter, minimum, maximum, default_value, check_range) ==
    LET NotAllowed == [val |-> NaN, exc |-> Some(SCPIError(-108, "Parameter not allowed"))]
    IN  IF IsOneOf(parameter, MinNames)
        THEN IF minimum = None THEN NotAllowed ELSE [val |-> minimum[1], exc |-> None]
        ELSE IF IsOneOf(parameter, MaxNames)
        THEN IF maximum = None THEN NotAllowed ELSE [val |-> maximum[1], exc |-> None]
        ELSE IF IsOneOf(parameter, DefNames)
        THEN IF default_value = None THEN NotAllowed
             ELSE [val |-> default_value[1], exc |-> None]
        ELSE FloatChecked(ParseFloat(parameter), minimum, maximum, check_range,
                          SCPIError(-104, "Data type error"),
                          SCPIError(-222, "Data out of range"))

\* ScpiInstrument.get_float_parameter_value: [val, exc]; parameter is None or
\* Some(text), minimum, maximum and default_value are None or Some(float)
ScpiInstrument_get_float_parameter_value(parameter, minimum, maximum, default_value, current_value) ==
    LET Invalid == [val |-> "",
                    exc |-> Some(SCPIError(-102, "Command error (invalid argument)"))]
    IN  IF parameter # None /\ parameter[1] # <<>> /\ IsOneOf(parameter[1], MinNames)
        THEN IF minimum = None THEN Invalid
             ELSE [val |-> FloatStr(minimum[1]), exc |-> None]
        ELSE IF parameter # None /\ parameter[1] # <<>> /\ IsOneOf(parameter[1], MaxNames)
        THEN IF maximum = None THEN Invalid
             ELSE [val |-> FloatStr(maximum[1]), exc |-> None]
        ELSE IF parameter # None /\ parameter[1] # <<>> /\ IsOneOf(parameter[1], DefNames)
        THEN IF default_value = None THEN Invalid
             ELSE [val |-> FloatStr(default_value[1]), exc |-> None]
        ELSE [val |-> FloatStr(current_value), exc |-> None]

\* ScpiSignalGenerator.get_float_parameter_value: [val, exc]
get_float_parameter_value(parameter, minimum, maximum, default_value, current_value) ==
    LET NotAllowed == [val |-> "", exc |-> Some(SCPIError(-108, "Parameter not allowed"))]
    IN  IF parameter # None /\ parameter[1] # <<>>
        THEN IF IsOneOf(parameter[1], MinNames)
             THEN IF minimum = None THEN NotAllowed
                  ELSE [val |-> FloatStr(minimum[1]), exc |-> None]
             ELSE IF IsOneOf(parameter[1], MaxNames)
             THEN IF maximum = None THEN NotAllowed
                  ELSE [val |-> FloatStr(maximum[1]), exc |-> None]
             ELSE IF IsOneOf(parameter[1], DefNames)
             THEN IF default_value = None THEN NotAllowed
                  ELSE [val |-> FloatStr(default_value[1]), exc |-> None]
             ELSE NotAllowed
        ELSE [val |-> FloatStr(current_value), exc |-> None]

\* ScpiSignalGenerator.get_channel: [val, exc], val the zero-based channel
get_channel(self, parameter) ==
    LET ZeroBased(r) == [val |-> r.val - 1, exc |-> r.exc]
    IN  ZeroBased(Called("get_int_parameter",
                          [parameter |-> IF parameter = None \/ parameter[1] = <<>> THEN Text(<<"1">>) ELSE parameter[1],
                           minimum |-> 1,
                           maximum |-> Len(self.output_config),
                           default_value |-> 1,
                           check_range |-> TRUE]))

\* the end of set_source_asymmetry_command: channel and percent are the
\* results of get_channel and get_float_parameter, set that of the setter
asymmetry_stored(self, channel, percent, set) ==
    IF channel.exc # None THEN Raise(self, channel.exc[1])
    ELSE IF percent.exc # None THEN Raise(self, percent.exc[1])
    ELSE IF ~set.ok THEN Raise(self, ValueError("Skew must be between 0 and 100"))
    ELSE Return([self EXCEPT !.output_config[channel.val + 1] = set.config], None)

\* output_config[channel].skew = percent
asymmetry_set(self, channel, percent) ==
    asymmetry_stored(self, channel, percent,
                     set_skew(self.output_config[channel.val + 1], percent.val))

set_source_asymmetry_command(self, channel_str, parameter) ==
    asymmetry_set(self, Called("get_channel", [self |-> self, parameter |-> channel_str]),
                  Called("get_float_parameter",
                          [parameter |-> parameter[1],
                           minimum |-> Some(Num(0)),
                           maximum |-> Some(Num(100000)),
                           default_value |-> Some(skew(get_default_channel_config)),
                           check_range |-> TRUE]))

get_source_asymmetry_command(self, channel_str, parameter) ==
    LET Answer(channel, value) ==
            IF channel.exc # None THEN Raise(self, channel.exc[1])
            ELSE IF value.exc # None THEN Raise(self, value.exc[1])
            ELSE Return(self, Some(value.val))
        Query(channel) ==
            Answer(channel,
                   Called("get_float_parameter_value",
                           [parameter |-> parameter,
                            minimum |-> Some(Zero(FALSE)),
                            maximum |-> Some(Num(100000)),
                            default_value |-> Some(skew(get_default_channel_config)),
                            current_value |-> skew(self.output_config[channel.val + 1])]))
    IN  Query(Called("get_channel", [self |-> self, parameter |-> channel_str]))

set_source_phase_deg_command(self, channel_str, parameter) ==
    LET Stored(channel, value) ==
            IF channel.exc # None THEN Raise(self, channel.exc[1])
            ELSE IF value.exc # None THEN Raise(self, value.exc[1])
            ELSE Return([self EXCEPT !.output_config[channel.val + 1].phase_deg =
                                         value.val], None)
    IN  Stored(Called("get_channel", [self |-> self, parameter |-> channel_str]),
               Called("get_float_parameter",
                       [parameter |-> parameter[1],
                        minimum |-> Some(FNeg(Num(360000))),
                        maximum |-> Some(Num(360000)),
                        default_value |-> Some(get_default_channel_config.phase_deg),
                        check_range |-> TRUE]))

get_source_phase_deg_command(self, channel_str, parameter) ==
    LET Answer(channel, value) ==
            IF channel.exc # None THEN Raise(self, channel.exc[1])
            ELSE IF value.exc # None THEN Raise(self, value.exc[1])
            ELSE Return(self, Some(value.val))
        Query(channel) ==
            Answer(channel,
                   Called("get_float_parameter_value",
                           [parameter |-> parameter,
                            minimum |-> Some(FNeg(Num(360000))),
                            maximum |-> Some(Num(360000)),
                            default_value |-> Some(get_default_channel_config.phase_deg),
                            current_value |-> self.output_config[channel.val + 1].phase_deg]))
    IN  Query(Called("get_channel", [self |-> self, parameter |-> channel_str]))

set_source_period_command(self, channel_str, parameter) ==
    LET Stored(channel, value, set) ==
            IF channel.exc # None THEN Raise(self, channel.exc[1])
            ELSE IF value.exc # None THEN Raise(self, value.exc[1])
            ELSE IF set.exc # None THEN Raise(self, set.exc[1])
            ELSE Return([self EXCEPT !.output_config[channel.val + 1] = set.config], None)
        Checked(channel, value) ==
            Stored(channel, value, set_period(self.output_config[channel.val + 1], value.val))
        Found(channel) ==
            Checked(channel,
                    Called("get_float_parameter",
                            [parameter |-> parameter[1],
                             minimum |-> Some(Called("FDiv", [a |-> Num(1000), b |-> Num(SampleRate * 1000)])),
                             maximum |-> Some(PosInf),
                             default_value |-> Some(period(get_default_channel_config)),
                             check_range |-> TRUE]))
    IN  Found(Called("get_channel", [self |-> self, parameter |-> channel_str]))

get_source_period_command(self, channel_str, parameter) ==
    LET Answer(channel, value) ==
            IF channel.exc # None THEN Raise(self, channel.exc[1])
            ELSE IF value.exc # None THEN Raise(self, value.exc[1])
            ELSE Return(self, Some(value.val))
        Query(channel) ==
            Answer(channel,
                   Called("get_float_parameter_value",
                           [parameter |-> parameter,
                            minimum |-> Some(Called("FDiv", [a |-> Num(1000), b |-> Num(SampleRate * 1000)])),
                            maximum |-> Some(PosInf),
                            default_value |-> Some(period(get_default_channel_config)),
                            current_value |-> period(self.output_config[channel.val + 1])]))
    IN  Query(Called("get_channel", [self |-> self, parameter |-> channel_str]))

\* the end of set_source_duty_cycle_command: channel and duty are the
\* results of get_channel and get_float_parameter, set that of the setter
duty_cycle_stored(self, channel, duty, set) ==
    IF channel.exc # None THEN Raise(self, channel.exc[1])
    ELSE IF duty.exc # None THEN Raise(self, duty.exc[1])
    ELSE IF ~set.ok THEN Raise(self, ValueError("Duty cycle must be between 0 and 100"))
    ELSE Return([self EXCEPT !.output_config[channel.val + 1] = set.config], None)

\* output_config[channel].duty_cycle = duty
duty_cycle_set(self, channel, duty) ==
    duty_cycle_stored(self, channel, duty,
                      set_duty_cycle(self.output_config[channel.val + 1], duty.val))

set_source_duty_cycle_command(self, channel_str, parameter) ==
    duty_cycle_set(self, Called("get_channel", [self |-> self, parameter |-> channel_str]),
                   Called("get_float_parameter",
                           [parameter |-> parameter[1],
                            minimum |-> Some(Num(0)),
                            maximum |-> Some(Num(100000)),
                            default_value |-> Some(duty_cycle(get_default_channel_config)),
                            check_range |-> TRUE]))

\* the switch positions of set_output_enabled_command
OnNames == {Text(<<"O", "N">>), Text(<<"1">>)}
OffNames == {Text(<<"O", "F", "F">>), Text(<<"0">>)}

set_output_enabled_command(self, channel_str, parameter) ==
    LET Switched(channel) ==
            IF channel.exc # None THEN Raise(self, channel.exc[1])
            ELSE IF IsOneOf(parameter[1], OnNames)
            THEN Return([self EXCEPT !.output_config[channel.val + 1].output_enabled = TRUE],
                        None)
            ELSE IF IsOneOf(parameter[1], OffNames)
            THEN Return([self EXCEPT !.output_config[channel.val + 1].output_enabled = FALSE],
                        None)
            ELSE Raise(self, SCPIError(-224, "Illegal parameter value"))
    IN  Switched(Called("get_channel", [self |-> self, parameter |-> channel_str]))

get_output_enabled_command(self, channel_str) ==
    LET Answer(channel) ==
            IF channel.exc # None THEN Raise(self, channel.exc[1])
            ELSE Return(self, Some(IF self.output_config[channel.val + 1].output_enabled
                                   THEN "1" ELSE "0"))
    IN  Answer(Called("get_channel", [self |-> self, parameter |-> channel_str]))

\* WAVEFORM_MAP: the SCPI name and the aliases of each waveform, in the
\* order of the map
WAVEFORM_MAP ==
    << [waveform |-> "sine", scpi_name |-> "SINusoid",
        aliases |-> {Text(<<"S", "I", "N">>), Text(<<"S", "I", "N", "U", "S", "O", "I", "D">>)}],
       [waveform |-> "square", scpi_name |-> "SQUare",
        aliases |-> {Text(<<"S", "Q", "U">>), Text(<<"S", "Q", "U", "A", "R", "E">>)}],
       [waveform |-> "pulse", scpi_name |-> "PULSe",
        aliases |-> {Text(<<"P", "U", "L">>), Text(<<"P", "U", "L", "S", "E">>)}],
       [waveform |-> "ramp", scpi_name |-> "RAMP",
        aliases |-> {Text(<<"R", "A", "M", "P">>)}],
       [waveform |-> "noise", scpi_name |-> "NOISe",
        aliases |-> {Text(<<"N", "O", "I">>), Text(<<"N", "O", "I", "S", "E">>)}],
       [waveform |-> "dc", scpi_name |-> "DC", aliases |-> {Text(<<"D", "C">>)}],
       [waveform |-> "sweep", scpi_name |-> "SWEep",
        aliases |-> {Text(<<"S", "W", "E">>), Text(<<"S", "W", "E", "E", "P">>)}],
       [waveform |-> "impulse", scpi_name |-> "IMPulse",
        aliases |-> {Text(<<"I", "M", "P">>), Text(<<"I", "M", "P", "U", "L", "S", "E">>)}] >>

set_source_function_command(self, channel_str, parameter) ==
    LET found == {i \in 1..Len(WAVEFORM_MAP) : IsOneOf(parameter[1], WAVEFORM_MAP[i].aliases)}
        waveform == WAVEFORM_MAP[CHOOSE i \in found : \A j \in found : i <= j].waveform
        Selected(channel) ==
            IF channel.exc # None THEN Raise(self, channel.exc[1])
            ELSE IF found = {} THEN Raise(self, SCPIError(-224, "Illegal parameter value"))
            ELSE Return([self EXCEPT !.output_config[channel.val + 1].waveform = waveform],
                        None)
    IN  Selected(Called("get_channel", [self |-> self, parameter |-> channel_str]))

get_source_function_command(self, channel_str) ==
    LET Named(waveform) ==
            {i \in 1..Len(WAVEFORM_MAP) : WAVEFORM_MAP[i].waveform = waveform}
        Answer(channel) ==
            IF channel.exc # None THEN Raise(self, channel.exc[1])
            ELSE IF Named(self.output_config[channel.val + 1].waveform) = {}
            THEN Raise(self, SCPIError(-224, "Illegal parameter value"))
            ELSE Return(self, Some(WAVEFORM_MAP[
                     CHOOSE i \in Named(self.output_config[channel.val + 1].waveform) : TRUE
                 ].scpi_name))
    IN  Answer(Called("get_channel", [self |-> self, parameter |-> channel_str]))

\* the end of each branch of get_voltage_limits: default_value is
\* default_config.voltage, limits the minimum, the maximum and
\* default_config as the branch has set them
limits_with_default(limits, default_value) ==
    IF limits.exc # None
    THEN [minimum |-> NaN, maximum |-> NaN, default_value |-> NaN, exc |-> limits.exc]
    ELSE [minimum |-> limits.minimum, maximum |-> limits.maximum,
          default_value |-> default_value.val, exc |-> default_value.exc]

\* default_value = default_config.voltage
limits_default(limits) == limits_with_default(limits, voltage(limits.config))

\* ScpiSignalGenerator.get_voltage_limits: [minimum, maximum, default_value, exc]
get_voltage_limits(self, channel) ==
    LET channel_config == self.output_config[channel + 1]
        default_config == get_default_channel_config
        vrms_at_fs == channel_config.calibration_vrms_at_fs
        calibrated(unit) == [default_config EXCEPT !.calibration_vrms_at_fs = vrms_at_fs,
                                                   !.voltage_unit = unit]
        Limits(minimum, maximum, config) ==
            [minimum |-> minimum, maximum |-> maximum, config |-> config, exc |-> None]
        Fails(e) == [minimum |-> NaN, maximum |-> NaN, config |-> default_config,
                     exc |-> Some(e)]
    IN  limits_default(
            IF channel_config.voltage_unit = "dbfs"
            THEN Limits(NegInf, Num(0), [default_config EXCEPT !.voltage_unit = "dbfs"])
            ELSE IF vrms_at_fs = None
            THEN Fails(SCPIError(-221, "Settings conflict (not calibrated)"))
            ELSE IF channel_config.voltage_unit = "vrms"
            THEN Limits(Num(0), vrms_at_fs[1], calibrated("vrms"))
            ELSE IF channel_config.voltage_unit = "dbu"
            THEN Limits(NegInf, vrms_to_dbu(vrms_at_fs[1]), calibrated("dbu"))
            ELSE IF channel_config.voltage_unit = "vpp"
            THEN Limits(Num(0), vrms_to_vpp(vrms_at_fs[1]), calibrated("vpp"))
            ELSE Fails(SCPIError(-224, "Illegal parameter value")))

\* a variant of set_source_frequency_command that stores the token's value
\* before it checks the range
set_source_frequency_command_storing(self, channel_str, parameter) ==
    LET Stored(channel, unchecked, frequency) ==
            IF channel.exc # None THEN Raise(self, channel.exc[1])
            ELSE IF unchecked.exc # None THEN Raise(self, unchecked.exc[1])
            ELSE IF frequency.exc # None
            THEN Raise([self EXCEPT !.output_config[channel.val + 1].frequency_hz =
                                        unchecked.val], frequency.exc[1])
            ELSE Return([self EXCEPT !.output_config[channel.val + 1].frequency_hz =
                                         frequency.val], None)
    IN  Stored(Called("get_channel", [self |-> self, parameter |-> channel_str]),
               Called("get_float_parameter",
                       [parameter |-> parameter[1],
                        minimum |-> Some(Num(0)),
                        maximum |-> Some(Num((SampleRate * 1000) \div 2)),
                        default_value |-> Some(get_default_channel_config.frequency_hz),
                        check_range |-> FALSE]),
               Called("get_float_parameter",
                       [parameter |-> parameter[1],
                        minimum |-> Some(Num(0)),
                        maximum |-> Some(Num((SampleRate * 1000) \div 2)),
                        default_value |-> Some(get_default_channel_config.frequency_hz),
                        check_range |-> TRUE]))

set_source_frequency_command(self, channel_str, parameter) ==
    LET Stored(channel, frequency) ==
            IF channel.exc # None THEN Raise(self, channel.exc[1])
            ELSE IF frequency.exc # None THEN Raise(self, frequency.exc[1])
            ELSE Return([self EXCEPT !.output_config[channel.val + 1].frequency_hz =
                                         frequency.val], None)
    IN  Stored(Called("get_channel", [self |-> self, parameter |-> channel_str]),
               Called("get_float_parameter",
                       [parameter |-> parameter[1],
                        minimum |-> Some(Num(0)),
                        maximum |-> Some(Num((SampleRate * 1000) \div 2)),
                        default_value |-> Some(get_default_channel_config.frequency_hz),
                        check_range |-> TRUE]))

get_source_frequency_command(self, channel_str, parameter) ==
    LET Answer(channel, value) ==
            IF channel.exc # None THEN Raise(self, channel.exc[1])
            ELSE IF value.exc # None THEN Raise(self, value.exc[1])
            ELSE Return(self, Some(value.val))
        Query(channel) ==
            Answer(channel,
                   Called("get_float_parameter_value",
                           [parameter |-> parameter,
                            minimum |-> Some(Num(0)),
                            maximum |-> Some(Num((SampleRate * 1000) \div 2)),
                            default_value |-> Some(get_default_channel_config.frequency_hz),
                            current_value |-> self.output_config[channel.val + 1].frequency_hz]))
    IN  Query(Called("get_channel", [self |-> self, parameter |-> channel_str]))

\* the voltage that get_float_parameter returns is a numpy.float64 when it
\* is the maximum or the default value of a channel in dBu, which
\* vrms_to_dbu has computed
IsScalar(config, parameter) ==
    config.voltage_unit = "dbu" /\ IsOneOf(parameter, MaxNames \cup DefNames)

set_source_voltage_command(self, channel_str, parameter) ==
    LET Stored(channel, limits, value, set) ==
            IF channel.exc # None THEN Raise(self, channel.exc[1])
            ELSE IF limits.exc # None THEN Raise(self, limits.exc[1])
            ELSE IF value.exc # None THEN Raise(self, value.exc[1])
            ELSE IF set.exc # None THEN Raise(self, set.exc[1])
            ELSE Return([self EXCEPT !.output_config[channel.val + 1] = set.config], None)
        Checked(channel, limits, value) ==
            Stored(channel, limits, value,
                   set_voltage(self.output_config[channel.val + 1], value.val,
                               IsScalar(self.output_config[channel.val + 1], parameter[1])))
        Limited(channel, limits) ==
            Checked(channel, limits,
                    Called("get_float_parameter",
                            [parameter |-> parameter[1],
                             minimum |-> Some(limits.minimum),
                             maximum |-> Some(limits.maximum),
                             default_value |-> Some(limits.default_value),
                             check_range |-> TRUE]))
        Found(channel) == Limited(channel, Called("get_voltage_limits",
                                                   [self |-> self,
                                                    channel |-> channel.val]))
    IN  Found(Called("get_channel", [self |-> self, parameter |-> channel_str]))

\* the end of get_source_voltage_command: channel, limits, current and
\* value are the results of get_channel, get_voltage_limits, the voltage
\* getter and get_float_parameter_value
voltage_answer(self, channel, limits, current, value) ==
    IF channel.exc # None THEN Raise(self, channel.exc[1])
    ELSE IF limits.exc # None THEN Raise(self, limits.exc[1])
    ELSE IF current.exc # None THEN Raise(self, current.exc[1])
    ELSE IF value.exc # None THEN Raise(self, value.exc[1])
    ELSE Return(self, Some(value.val))

\* get_float_parameter_value(parameter, minimum, maximum, default_value,
\* output_config[channel].voltage)
voltage_query(self, parameter, channel, limits, current) ==
    voltage_answer(self, channel, limits, current,
                   Called("get_float_parameter_value",
                           [parameter |-> parameter,
                            minimum |-> Some(limits.minimum),
                            maximum |-> Some(limits.maximum),
                            default_value |-> Some(limits.default_value),
                            current_value |-> current.val]))

\* minimum, maximum, default_value = get_voltage_limits(channel)
voltage_read(self, parameter, channel) ==
    voltage_query(self, parameter, channel, Called("get_voltage_limits",
                                                    [self |-> self,
                                                     channel |-> channel.val]),
                  voltage(self.output_config[channel.val + 1]))

get_source_voltage_command(self, channel_str, parameter) ==
    voltage_read(self, parameter, Called("get_channel",
                                          [self |-> self,
                                           parameter |-> channel_str]))

\* VOLTAGE_UNIT_MAP: the SCPI name and the aliases of each unit, in the
\* order of the map
VOLTAGE_UNIT_MAP ==
    << [unit |-> "dbfs", scpi_name |-> "dBFS", aliases |-> {Text(<<"D", "B", "F", "S">>)}],
       [unit |-> "vrms", scpi_name |-> "Vrms", aliases |-> {Text(<<"V", "R", "M", "S">>)}],
       [unit |-> "dbu", scpi_name |-> "dBu", aliases |-> {Text(<<"D", "B", "U">>)}],
       [unit |-> "vpp", scpi_name |-> "Vpp", aliases |-> {Text(<<"V", "P", "P">>)}] >>

\* a variant of set_source_voltage_unit_command that selects the unit of an
\* uncalibrated channel
set_source_voltage_unit_command_unchecked(self, channel_str, parameter) ==
    LET found == {i \in 1..Len(VOLTAGE_UNIT_MAP) :
                      IsOneOf(parameter[1], VOLTAGE_UNIT_MAP[i].aliases)}
        unit == VOLTAGE_UNIT_MAP[CHOOSE i \in found : \A j \in found : i <= j].unit
        Selected(channel) ==
            IF channel.exc # None THEN Raise(self, channel.exc[1])
            ELSE IF found = {} THEN Raise(self, SCPIError(-224, "Illegal parameter value"))
            ELSE Return([self EXCEPT !.output_config[channel.val + 1].voltage_unit = unit],
                        None)
    IN  Selected(Called("get_channel", [self |-> self, parameter |-> channel_str]))

set_source_voltage_unit_command(self, channel_str, parameter) ==
    LET found == {i \in 1..Len(VOLTAGE_UNIT_MAP) :
                      IsOneOf(parameter[1], VOLTAGE_UNIT_MAP[i].aliases)}
        unit == VOLTAGE_UNIT_MAP[CHOOSE i \in found : \A j \in found : i <= j].unit
        Selected(channel) ==
            IF channel.exc # None THEN Raise(self, channel.exc[1])
            ELSE IF found = {} THEN Raise(self, SCPIError(-224, "Illegal parameter value"))
            ELSE IF unit # "dbfs"
                    /\ self.output_config[channel.val + 1].calibration_vrms_at_fs = None
            THEN Raise(self, SCPIError(-221, "Settings conflict (not calibrated)"))
            ELSE Return([self EXCEPT !.output_config[channel.val + 1].voltage_unit = unit],
                        None)
    IN  Selected(Called("get_channel", [self |-> self, parameter |-> channel_str]))

get_source_voltage_unit_command(self, channel_str) ==
    LET Named(unit) == {i \in 1..Len(VOLTAGE_UNIT_MAP) : VOLTAGE_UNIT_MAP[i].unit = unit}
        Answer(channel) ==
            IF channel.exc # None THEN Raise(self, channel.exc[1])
            ELSE IF Named(self.output_config[channel.val + 1].voltage_unit) = {}
            THEN Raise(self, SCPIError(-224, "Illegal parameter value"))
            ELSE Return(self, Some(VOLTAGE_UNIT_MAP[
                     CHOOSE i \in Named(self.output_config[channel.val + 1].voltage_unit) : TRUE
                 ].scpi_name))
    IN  Answer(Called("get_channel", [self |-> self, parameter |-> channel_str]))

set_source_dc_offset_command(self, channel_str, parameter) ==
    LET Stored(channel, value, set) ==
            IF value.exc # None THEN Raise(self, value.exc[1])
            ELSE IF set.exc # None THEN Raise(self, set.exc[1])
            ELSE Return([self EXCEPT !.output_config[channel.val + 1] = set.config], None)
        Checked(channel, value) ==
            Stored(channel, value,
                   set_dc_offset_voltage(self.output_config[channel.val + 1], value.val))
        Limited(channel, vpeak) ==
            Checked(channel,
                    Called("get_float_parameter",
                            [parameter |-> parameter[1],
                             minimum |-> Some(FNeg(vpeak[1])),
                             maximum |-> Some(vpeak[1]),
                             default_value |-> Some(dc_offset_voltage(get_default_channel_config)),
                             check_range |-> TRUE]))
        Found(channel) ==
            IF channel.exc # None THEN Raise(self, channel.exc[1])
            ELSE IF self.output_config[channel.val + 1].calibration_vrms_at_fs = None
            THEN Raise(self, SCPIError(-221, "Settings conflict (not calibrated)"))
            ELSE Limited(channel, calibration_vpeak_at_fs(self.output_config[channel.val + 1]))
    IN  Found(Called("get_channel", [self |-> self, parameter |-> channel_str]))

get_source_dc_offset_command(self, channel_str, parameter) ==
    LET Answer(value) ==
            IF value.exc # None THEN Raise(self, value.exc[1])
            ELSE Return(self, Some(value.val))
        Query(config, vpeak) ==
            Answer(Called("get_float_parameter_value",
                           [parameter |-> parameter,
                            minimum |-> IF vpeak = None THEN None ELSE Some(FNeg(vpeak[1])),
                            maximum |-> IF vpeak = None THEN None ELSE Some(vpeak[1]),
                            default_value |-> Some(dc_offset_voltage(get_default_channel_config)),
                            current_value |-> dc_offset_voltage(config)]))
        Found(channel) ==
            IF channel.exc # None THEN Raise(self, channel.exc[1])
            ELSE IF self.output_config[channel.val + 1].calibration_vrms_at_fs = None
                    /\ parameter = None
            THEN Return(self, Some("0"))
            ELSE Query(self.output_config[channel.val + 1],
                       calibration_vpeak_at_fs(self.output_config[channel.val + 1]))
    IN  Found(Called("get_channel", [self |-> self, parameter |-> channel_str]))

set_source_calibration_command(self, channel_str, parameter) ==
    LET Stored(channel, calibration_vrms_at_fs) ==
            IF channel.exc # None THEN Raise(self, channel.exc[1])
            ELSE IF calibration_vrms_at_fs.exc # None
            THEN Raise(self, calibration_vrms_at_fs.exc[1])
            ELSE Return([self EXCEPT !.output_config[channel.val + 1].calibration_vrms_at_fs =
                                         Some(calibration_vrms_at_fs.val)], None)
    IN  Stored(Called("get_channel", [self |-> self, parameter |-> channel_str]),
               Called("get_float_parameter",
                       [parameter |-> parameter[1],
                        minimum |-> None,
                        maximum |-> None,
                        default_value |-> get_default_channel_config.calibration_vrms_at_fs,
                        check_range |-> TRUE]))

get_source_calibration_command(self, channel_str, parameter) ==
    LET Answer(channel, value) ==
            IF channel.exc # None THEN Raise(self, channel.exc[1])
            ELSE IF self.output_config[channel.val + 1].calibration_vrms_at_fs = None
            THEN Raise(self, SCPIError(-221, "Settings conflict (not calibrated)"))
            ELSE IF value.exc # None THEN Raise(self, value.exc[1])
            ELSE Return(self, Some(value.val))
        Query(channel) ==
            Answer(channel,
                   Called("get_float_parameter_value",
                           [parameter |-> parameter,
                            minimum |-> None,
                            maximum |-> None,
                            default_value |-> get_default_channel_config.calibration_vrms_at_fs,
                            current_value |-> self.output_config[channel.val + 1].calibration_vrms_at_fs[1]]))
    IN  Query(Called("get_channel", [self |-> self, parameter |-> channel_str]))

get_source_duty_cycle_command(self, channel_str, parameter) ==
    LET Answer(channel, value) ==
            IF channel.exc # None THEN Raise(self, channel.exc[1])
            ELSE IF value.exc # None THEN Raise(self, value.exc[1])
            ELSE Return(self, Some(value.val))
        Query(channel) ==
            Answer(channel,
                   Called("get_float_parameter_value",
                           [parameter |-> parameter,
                            minimum |-> Some(Zero(FALSE)),
                            maximum |-> Some(Num(100000)),
                            default_value |-> Some(duty_cycle(get_default_channel_config)),
                            current_value |-> duty_cycle(self.output_config[channel.val + 1])]))
    IN  Query(Called("get_channel", [self |-> self, parameter |-> channel_str]))

set_source_pulse_width_command(self, channel_str, parameter) ==
    LET Stored(channel, value, set) ==
            IF channel.exc # None THEN Raise(self, channel.exc[1])
            ELSE IF value.exc # None THEN Raise(self, value.exc[1])
            ELSE IF set.exc # None THEN Raise(self, set.exc[1])
            ELSE Return([self EXCEPT !.output_config[channel.val + 1] = set.config], None)
        Checked(channel, value) ==
            Stored(channel, value, set_pulse_width(self.output_config[channel.val + 1], value.val))
        Found(channel) ==
            Checked(channel,
                    Called("get_float_parameter",
                            [parameter |-> parameter[1],
                             minimum |-> Some(Zero(FALSE)),
                             maximum |-> Some(period(self.output_config[channel.val + 1])),
                             default_value |-> Some(pulse_width(get_default_channel_config)),
                             check_range |-> TRUE]))
    IN  Found(Called("get_channel", [self |-> self, parameter |-> channel_str]))

get_source_pulse_width_command(self, channel_str, parameter) ==
    LET Answer(channel, value) ==
            IF channel.exc # None THEN Raise(self, channel.exc[1])
            ELSE IF value.exc # None THEN Raise(self, value.exc[1])
            ELSE Return(self, Some(value.val))
        Query(channel) ==
            Answer(channel,
                   Called("get_float_parameter_value",
                           [parameter |-> parameter,
                            minimum |-> Some(Zero(FALSE)),
                            maximum |-> Some(period(self.output_config[channel.val + 1])),
                            default_value |-> Some(pulse_width(get_default_channel_config)),
                            current_value |-> pulse_width(self.output_config[channel.val + 1])]))
    IN  Query(Called("get_channel", [self |-> self, parameter |-> channel_str]))

set_source_sweep_start_frequency_command(self, channel_str, parameter) ==
    LET Stored(channel, value) ==
            IF channel.exc # None THEN Raise(self, channel.exc[1])
            ELSE IF value.exc # None THEN Raise(self, value.exc[1])
            ELSE Return([self EXCEPT !.output_config[channel.val + 1].sweep_start_frequency_hz =
                                         value.val], None)
    IN  Stored(Called("get_channel", [self |-> self, parameter |-> channel_str]),
               Called("get_float_parameter",
                       [parameter |-> parameter[1],
                        minimum |-> Some(Zero(FALSE)),
                        maximum |-> Some(Num((SampleRate * 1000) \div 2)),
                        default_value |-> Some(get_default_channel_config.sweep_start_frequency_hz),
                        check_range |-> TRUE]))

get_source_sweep_start_frequency_command(self, channel_str, parameter) ==
    LET Answer(channel, value) ==
            IF channel.exc # None THEN Raise(self, channel.exc[1])
            ELSE IF value.exc # None THEN Raise(self, value.exc[1])
            ELSE Return(self, Some(value.val))
        Query(channel) ==
            Answer(channel,
                   Called("get_float_parameter_value",
                           [parameter |-> parameter,
                            minimum |-> Some(Zero(FALSE)),
                            maximum |-> Some(Num((SampleRate * 1000) \div 2)),
                            default_value |-> Some(get_default_channel_config.sweep_start_frequency_hz),
                            current_value |-> self.output_config[channel.val + 1].sweep_start_frequency_hz]))
    IN  Query(Called("get_channel", [self |-> self, parameter |-> channel_str]))

set_source_sweep_stop_frequency_command(self, channel_str, parameter) ==
    LET Stored(channel, value) ==
            IF channel.exc # None THEN Raise(self, channel.exc[1])
            ELSE IF value.exc # None THEN Raise(self, value.exc[1])
            ELSE Return([self EXCEPT !.output_config[channel.val + 1].sweep_stop_frequency_hz =
                                         value.val], None)
    IN  Stored(Called("get_channel", [self |-> self, parameter |-> channel_str]),
               Called("get_float_parameter",
                       [parameter |-> parameter[1],
                        minimum |-> Some(Zero(FALSE)),
                        maximum |-> Some(Num((SampleRate * 1000) \div 2)),
                        default_value |-> Some(get_default_channel_config.sweep_stop_frequency_hz),
                        check_range |-> TRUE]))

get_source_sweep_stop_frequency_command(self, channel_str, parameter) ==
    LET Answer(channel, value) ==
            IF channel.exc # None THEN Raise(self, channel.exc[1])
            ELSE IF value.exc # None THEN Raise(self, value.exc[1])
            ELSE Return(self, Some(value.val))
        Query(channel) ==
            Answer(channel,
                   Called("get_float_parameter_value",
                           [parameter |-> parameter,
                            minimum |-> Some(Zero(FALSE)),
                            maximum |-> Some(Num((SampleRate * 1000) \div 2)),
                            default_value |-> Some(get_default_channel_config.sweep_stop_frequency_hz),
                            current_value |-> self.output_config[channel.val + 1].sweep_stop_frequency_hz]))
    IN  Query(Called("get_channel", [self |-> self, parameter |-> channel_str]))

set_source_sweep_time_command(self, channel_str, parameter) ==
    LET Stored(channel, duration) ==
            IF channel.exc # None THEN Raise(self, channel.exc[1])
            ELSE IF duration.exc # None THEN Raise(self, duration.exc[1])
            ELSE Return([self EXCEPT !.output_config[channel.val + 1].sweep_duration_s =
                                         duration.val], None)
    IN  Stored(Called("get_channel", [self |-> self, parameter |-> channel_str]),
               Called("get_float_parameter",
                       [parameter |-> parameter[1],
                        minimum |-> Some(Num(1)),
                        maximum |-> Some(Num(1000000)),
                        default_value |-> Some(get_default_channel_config.sweep_duration_s),
                        check_range |-> TRUE]))

get_source_sweep_time_command(self, channel_str, parameter) ==
    LET Answer(channel, value) ==
            IF channel.exc # None THEN Raise(self, channel.exc[1])
            ELSE IF value.exc # None THEN Raise(self, value.exc[1])
            ELSE Return(self, Some(value.val))
        Query(channel) ==
            Answer(channel,
                   Called("get_float_parameter_value",
                           [parameter |-> parameter,
                            minimum |-> Some(Num(1)),
                            maximum |-> Some(Num(1000000)),
                            default_value |-> Some(get_default_channel_config.sweep_duration_s),
                            current_value |-> self.output_config[channel.val + 1].sweep_duration_s]))
    IN  Query(Called("get_channel", [self |-> self, parameter |-> channel_str]))

(***************************************************************************)
(* Command lines given to handle_command.                                  *)
(***************************************************************************)
\* *IDN?
L_IDN ==
    Text(<<"*", "I", "D", "N", "?">>)
\* *OPC?
L_OPC ==
    Text(<<"*", "O", "P", "C", "?">>)
\* *RST
L_RST ==
    Text(<<"*", "R", "S", "T">>)
\* *CLS
L_CLS ==
    Text(<<"*", "C", "L", "S">>)
\* *ESR?
L_ESR ==
    Text(<<"*", "E", "S", "R", "?">>)
\* *SRE 32
L_SRE32 ==
    Text(<<"*", "S", "R", "E", " ", "3", "2">>)
\* *sre  256
L_SRE256 ==
    Text(<<"*", "s", "r", "e", " ", " ", "2", "5", "6">>)
\* *SRE?
L_SREQ ==
    Text(<<"*", "S", "R", "E", "?">>)
\* *STB?
L_STB ==
    Text(<<"*", "S", "T", "B", "?">>)
\* syst:ERRor?
L_SYSTERR ==
    Text(<<"s", "y", "s", "t", ":", "E", "R", "R", "o", "r", "?">>)
\* BOGUS:COMMAND
L_BOGUS ==
    Text(<<"B", "O", "G", "U", "S", ":", "C", "O", "M", "M", "A", "N", "D">>)
\* FUNC:SQU:DCYC 25
L_SHORT ==
    Text(<<"F", "U", "N", "C", ":", "S", "Q", "U", ":", "D", "C", "Y", "C", " ", "2",
    "5">>)
\* FUNC:SQUARE:DCYC 25
L_DCYC25 ==
    Text(<<"F", "U", "N", "C", ":", "S", "Q", "U", "A", "R", "E", ":", "D", "C", "Y",
    "C", " ", "2", "5">>)
\* FUNC:SQUARE:DCYC abc
L_DCYCABC ==
    Text(<<"F", "U", "N", "C", ":", "S", "Q", "U", "A", "R", "E", ":", "D", "C", "Y",
    "C", " ", "a", "b", "c">>)
\* FUNC:SQUARE:DCYC 150
L_DCYC150 ==
    Text(<<"F", "U", "N", "C", ":", "S", "Q", "U", "A", "R", "E", ":", "D", "C", "Y",
    "C", " ", "1", "5", "0">>)
\* FUNC:SQUARE:DCYC nan
L_DCYCNAN ==
    Text(<<"F", "U", "N", "C", ":", "S", "Q", "U", "A", "R", "E", ":", "D", "C", "Y",
    "C", " ", "n", "a", "n">>)
\* FUNC:RAMP:SYMM nan
L_SYMMNAN ==
    Text(<<"F", "U", "N", "C", ":", "R", "A", "M", "P", ":", "S", "Y", "M", "M", " ",
    "n", "a", "n">>)

\* *SRE 300
L_SRE300 ==
    Text(<<"*", "S", "R", "E", " ", "3", "0", "0">>)
\* *SRE and the Arabic-Indic digit three (U+0663)
L_SREU3 ==
    Text(<<"*", "S", "R", "E", " ">>) \o <<1635>>
\* *sre written with the long s (U+017F), a no-break space (U+00A0) and 7
L_SRELONGS ==
    <<42, 383>> \o Text(<<"r", "e">>) \o <<160>> \o Text(<<"7">>)

\* *SRE and a mask of 4300 digits, the most that int() reads
L_SRE4300 ==
    Text(<<"*", "S", "R", "E", " ">>) \o [i \in 1..4300 |-> Ord("1")]
\* *SRE and a mask of 4301 digits
L_SRE4301 ==
    Text(<<"*", "S", "R", "E", " ">>) \o [i \in 1..4301 |-> Ord("1")]

\* FREQ 5
L_FREQ5 ==
    Text(<<"F", "R", "E", "Q", " ", "5">>)
\* FREQ abc
L_FREQABC ==
    Text(<<"F", "R", "E", "Q", " ", "a", "b", "c">>)
\* FREQ 99999
L_FREQ99999 ==
    Text(<<"F", "R", "E", "Q", " ", "9", "9", "9", "9", "9">>)
\* SOUR0:FREQ 5
L_S0FREQ5 ==
    Text(<<"S", "O", "U", "R", "0", ":", "F", "R", "E", "Q", " ", "5">>)
\* SOURCE9:FREQUENCY 5
L_S9FREQ5 ==
    Text(<<"S", "O", "U", "R", "C", "E", "9", ":", "F", "R", "E", "Q", "U", "E", "N", "C", "Y", " ", "5">>)
\* VOLT:UNIT Vrms
L_UNITVRMS ==
    Text(<<"V", "O", "L", "T", ":", "U", "N", "I", "T", " ", "V", "r", "m", "s">>)
\* VOLT:UNIT DBFS
L_UNITDBFS ==
    Text(<<"V", "O", "L", "T", ":", "U", "N", "I", "T", " ", "D", "B", "F", "S">>)
\* VOLT:UNIT FOO
L_UNITFOO ==
    Text(<<"V", "O", "L", "T", ":", "U", "N", "I", "T", " ", "F", "O", "O">>)
\* VOLT:CAL 2.5
L_CAL2P5 ==
    Text(<<"V", "O", "L", "T", ":", "C", "A", "L", " ", "2", ".", "5">>)
\* VOLTAGE:CALIBRATION DEFault
L_CALDEF ==
    Text(<<"V", "O", "L", "T", "A", "G", "E", ":", "C", "A", "L", "I", "B", "R", "A", "T", "I", "O", "N", " ", "D", "E", "F", "a", "u", "l", "t">>)
\* FUNC:SWE:TIME 5
L_SWETIME5 ==
    Text(<<"F", "U", "N", "C", ":", "S", "W", "E", ":", "T", "I", "M", "E", " ", "5">>)
\* FREQ?
L_FREQQ ==
    Text(<<"F", "R", "E", "Q", "?">>)
\* FREQ? max
L_FREQQMAX ==
    Text(<<"F", "R", "E", "Q", "?", " ", "m", "a", "x">>)
\* FREQ? MINIMUM
L_FREQQMIN ==
    Text(<<"F", "R", "E", "Q", "?", " ", "M", "I", "N", "I", "M", "U", "M">>)
\* FREQ? DEF
L_FREQQDEF ==
    Text(<<"F", "R", "E", "Q", "?", " ", "D", "E", "F">>)
\* FREQ? FOO
L_FREQQFOO ==
    Text(<<"F", "R", "E", "Q", "?", " ", "F", "O", "O">>)
\* SOUR9:FREQ?
L_S9FREQQ ==
    Text(<<"S", "O", "U", "R", "9", ":", "F", "R", "E", "Q", "?">>)
\* VOLT?
L_VOLTQ ==
    Text(<<"V", "O", "L", "T", "?">>)
\* VOLT? MAX
L_VOLTQMAX ==
    Text(<<"V", "O", "L", "T", "?", " ", "M", "A", "X">>)
\* VOLT:CAL?
L_CALQ ==
    Text(<<"V", "O", "L", "T", ":", "C", "A", "L", "?">>)
\* VOLT:CAL? MIN
L_CALQMIN ==
    Text(<<"V", "O", "L", "T", ":", "C", "A", "L", "?", " ", "M", "I", "N">>)

\* VOLT -6
L_VOLTN6 ==
    Text(<<"V", "O", "L", "T", " ", "-", "6">>)
\* VOLT 7
L_VOLT7 ==
    Text(<<"V", "O", "L", "T", " ", "7">>)
\* PER 0.01
L_PER0P01 ==
    Text(<<"P", "E", "R", " ", "0", ".", "0", "1">>)
\* PER 0
L_PER0 ==
    Text(<<"P", "E", "R", " ", "0">>)
\* FUNC:PULSE:PWID 0.0001
L_PWID0P0001 ==
    Text(<<"F", "U", "N", "C", ":", "P", "U", "L", "S", "E", ":", "P", "W", "I", "D",
           " ", "0", ".", "0", "0", "0", "1">>)
\* FUNC:PULSE:PWID 5
L_PWID5 ==
    Text(<<"F", "U", "N", "C", ":", "P", "U", "L", "S", "E", ":", "P", "W", "I", "D",
           " ", "5">>)
\* OUTP ON
L_OUTPON ==
    Text(<<"O", "U", "T", "P", " ", "O", "N">>)
\* OUTP 2
L_OUTP2 ==
    Text(<<"O", "U", "T", "P", " ", "2">>)
\* FUNC SQU
L_FUNCSQU ==
    Text(<<"F", "U", "N", "C", " ", "S", "Q", "U">>)
\* PHAS 90
L_PHAS90 ==
    Text(<<"P", "H", "A", "S", " ", "9", "0">>)
\* FUNC:RAMP:SYMM 25
L_SYMM25 ==
    Text(<<"F", "U", "N", "C", ":", "R", "A", "M", "P", ":", "S", "Y", "M", "M", " ",
           "2", "5">>)
\* VOLT:OFFS 1
L_OFFS1 ==
    Text(<<"V", "O", "L", "T", ":", "O", "F", "F", "S", " ", "1">>)
\* FUNCTION:SWEEP:FREQ:STAR 5
L_SWESTAR5 ==
    Text(<<"F", "U", "N", "C", "T", "I", "O", "N", ":", "S", "W", "E", "E", "P", ":",
           "F", "R", "E", "Q", ":", "S", "T", "A", "R", " ", "5">>)
\* FUNCTION:SWEEP:FREQ:STOP 5
L_SWESTOP5 ==
    Text(<<"F", "U", "N", "C", "T", "I", "O", "N", ":", "S", "W", "E", "E", "P", ":",
           "F", "R", "E", "Q", ":", "S", "T", "O", "P", " ", "5">>)
\* OUTP?
L_OUTPQ ==
    Text(<<"O", "U", "T", "P", "?">>)
\* FUNC?
L_FUNCQ ==
    Text(<<"F", "U", "N", "C", "?">>)
\* VOLT:UNIT?
L_UNITQ ==
    Text(<<"V", "O", "L", "T", ":", "U", "N", "I", "T", "?">>)
\* VOLT:OFFS?
L_OFFSQ ==
    Text(<<"V", "O", "L", "T", ":", "O", "F", "F", "S", "?">>)
\* FUNC:RAMP:SYMM?
L_SYMMQ ==
    Text(<<"F", "U", "N", "C", ":", "R", "A", "M", "P", ":", "S", "Y", "M", "M", "?">>)
\* PHAS?
L_PHASQ ==
    Text(<<"P", "H", "A", "S", "?">>)
\* PHAS? MIN
L_PHASQMIN ==
    Text(<<"P", "H", "A", "S", "?", " ", "M", "I", "N">>)
\* PER?
L_PERQ ==
    Text(<<"P", "E", "R", "?">>)
\* PER? MAX
L_PERQMAX ==
    Text(<<"P", "E", "R", "?", " ", "M", "A", "X">>)
\* FUNC:SQUARE:DCYC?
L_DCYCQ ==
    Text(<<"F", "U", "N", "C", ":", "S", "Q", "U", "A", "R", "E", ":", "D", "C", "Y",
           "C", "?">>)
\* FUNC:PULSE:PWID?
L_PWIDQ ==
    Text(<<"F", "U", "N", "C", ":", "P", "U", "L", "S", "E", ":", "P", "W", "I", "D",
           "?">>)
\* FUNCTION:SWEEP:FREQ:STAR?
L_SWESTARQ ==
    Text(<<"F", "U", "N", "C", "T", "I", "O", "N", ":", "S", "W", "E", "E", "P", ":",
           "F", "R", "E", "Q", ":", "S", "T", "A", "R", "?">>)
\* FUNCTION:SWEEP:FREQ:STOP?
L_SWESTOPQ ==
    Text(<<"F", "U", "N", "C", "T", "I", "O", "N", ":", "S", "W", "E", "E", "P", ":",
           "F", "R", "E", "Q", ":", "S", "T", "O", "P", "?">>)
\* FUNC:SWE:TIME?
L_SWETIMEQ ==
    Text(<<"F", "U", "N", "C", ":", "S", "W", "E", ":", "T", "I", "M", "E", "?">>)
\* VOLT:CAL 0
L_CAL0 ==
    Text(<<"V", "O", "L", "T", ":", "C", "A", "L", " ", "0">>)
\* VOLT:OFFS 0
L_OFFS0 ==
    Text(<<"V", "O", "L", "T", ":", "O", "F", "F", "S", " ", "0">>)
\* VOLT:CAL inf
L_CALINF ==
    Text(<<"V", "O", "L", "T", ":", "C", "A", "L", " ", "i", "n", "f">>)
\* VOLT:UNIT DBU
L_UNITDBU ==
    Text(<<"V", "O", "L", "T", ":", "U", "N", "I", "T", " ", "D", "B", "U">>)
\* VOLT 1e5
L_VOLT1E5 ==
    Text(<<"V", "O", "L", "T", " ", "1", "e", "5">>)

\* OUTP9 ON
L_OUTP9ON ==
    Text(<<"O", "U", "T", "P", "9", " ", "O", "N">>)
\* FUNC FOO
L_FUNCFOO ==
    Text(<<"F", "U", "N", "C", " ", "F", "O", "O">>)
\* VOLT:OFFS 9
L_OFFS9 ==
    Text(<<"V", "O", "L", "T", ":", "O", "F", "F", "S", " ", "9">>)
\* FUNC:RAMP:SYMM 150
L_SYMM150 ==
    Text(<<"F", "U", "N", "C", ":", "R", "A", "M", "P", ":", "S", "Y", "M", "M", " ",
           "1", "5", "0">>)
\* PHAS 400
L_PHAS400 ==
    Text(<<"P", "H", "A", "S", " ", "4", "0", "0">>)
\* FUNCTION:SWEEP:FREQ:STAR abc
L_SWESTARABC ==
    Text(<<"F", "U", "N", "C", "T", "I", "O", "N", ":", "S", "W", "E", "E", "P", ":",
           "F", "R", "E", "Q", ":", "S", "T", "A", "R", " ", "a", "b", "c">>)
\* FUNCTION:SWEEP:FREQ:STOP 99999
L_SWESTOP99999 ==
    Text(<<"F", "U", "N", "C", "T", "I", "O", "N", ":", "S", "W", "E", "E", "P", ":",
           "F", "R", "E", "Q", ":", "S", "T", "O", "P", " ", "9", "9", "9", "9", "9">>)
\* FUNC:SWE:TIME 0
L_SWETIME0 ==
    Text(<<"F", "U", "N", "C", ":", "S", "W", "E", ":", "T", "I", "M", "E", " ", "0">>)
\* SOUR2:FREQ 5
L_S2FREQ5 ==
    Text(<<"S", "O", "U", "R", "2", ":", "F", "R", "E", "Q", " ", "5">>)
\* SOUR2:FREQ abc
L_S2FREQABC ==
    Text(<<"S", "O", "U", "R", "2", ":", "F", "R", "E", "Q", " ", "a", "b", "c">>)
\* SOUR2:FUNC:PULSE:PWID 0.0001
L_S2PWID ==
    Text(<<"S", "O", "U", "R", "2", ":", "F", "U", "N", "C", ":", "P", "U", "L", "S",
           "E", ":", "P", "W", "I", "D", " ", "0", ".", "0", "0", "0", "1">>)
\* VOLT:UNIT VPP
L_UNITVPP ==
    Text(<<"V", "O", "L", "T", ":", "U", "N", "I", "T", " ", "V", "P", "P">>)

\* the lines given to the direct calls of handle_command: the commands of
\* the status model, an undefined header, a command that needs its keyword
\* in full, and commands of the signal generator that succeed, that answer,
\* and that fail with SCPIErrors of several codes or with another exception
Lines ==
    {L_IDN, L_OPC, L_RST, L_CLS, L_ESR,
     L_SRE32, L_SREQ, L_STB, L_SYSTERR,
     L_BOGUS, L_SHORT, L_DCYC25, L_DCYCABC, L_DCYC150,
     L_DCYCNAN, L_UNITVRMS, L_UNITFOO, L_FREQQFOO, L_FUNCQ}

\* the lines of SpecChannel: for each of the fifteen setters of the channel
\* configuration lines that fail (a channel suffix of 0 or beyond the
\* channels, a token that is not a number, a value out of range, an unknown
\* name, a channel without calibration), and the lines that bring a channel
\* of either output away from its defaults, and *RST
ChannelLines ==
    {L_OUTP9ON, L_FUNCFOO,
     L_FREQABC, L_FREQ99999, L_S0FREQ5, L_S9FREQ5, L_S2FREQABC,
     L_VOLT7, L_UNITVRMS, L_UNITFOO, L_OFFS9, L_CALDEF,
     L_SYMM150, L_PHAS400, L_PER0, L_DCYC150, L_PWID5,
     L_SWESTARABC, L_SWESTOP99999, L_SWETIME0,
     L_FREQ5, L_S2FREQ5, L_CAL2P5, L_RST}

\* the lines of SpecUnit: the voltage units, the calibration, voltages and
\* the queries of the voltage, and *RST
UnitLines ==
    {L_UNITVRMS, L_UNITDBU, L_UNITVPP, L_UNITDBFS, L_UNITFOO,
     L_CAL2P5, L_CALDEF, L_VOLTN6, L_VOLT7, L_VOLTQ, L_VOLTQMAX, L_RST}

\* the lines of SpecConfig in the order in which they are dispatched: an
\* undefined header, then a line for each field of the configuration of
\* the first channel that a command sets, and a line for the second channel
ConfigScript ==
    <<L_BOGUS, L_OUTPON, L_FUNCSQU, L_PER0P01, L_PHAS90, L_SYMM25, L_VOLTN6,
      L_CAL2P5, L_UNITVRMS, L_OFFS1, L_SWESTAR5, L_SWESTOP5, L_SWETIME5, L_S2PWID>>

\* the lines of SpecConfig
ConfigLines == {ConfigScript[i] : i \in 1..Len(ConfigScript)} \cup {L_RST}

\* the lines that query a parameter of a channel, and lines that change
\* what the queries read
QueryLines ==
    {L_FREQQ, L_FREQQMAX, L_FREQQMIN, L_FREQQDEF, L_FREQQFOO, L_S9FREQQ,
     L_VOLTQ, L_VOLTQMAX, L_CALQ, L_CALQMIN,
     L_OUTPQ, L_FUNCQ, L_UNITQ, L_OFFSQ, L_SYMMQ, L_PHASQ, L_PHASQMIN, L_PERQ, L_PERQMAX,
     L_DCYCQ, L_PWIDQ, L_SWESTARQ, L_SWESTOPQ, L_SWETIMEQ,
     L_FREQ5, L_CAL2P5, L_OFFS1, L_SRE32, L_CLS}

\* the lines whose handlers fail with an exception that is not an SCPIError
\* on some channel, the lines that bring a channel there, and lines that
\* read the error queue
FaultLines ==
    {L_CAL0, L_OFFS0, L_CALINF, L_UNITDBU, L_VOLT1E5, L_DCYCNAN, L_SYMMNAN,
     L_DCYC150, L_BOGUS, L_SYSTERR, L_CLS}

\* the lines that read, set or might disturb the service request enable
\* register: masks in several spellings and sizes, the queries of the
\* status model, and commands that queue errors
SreLines ==
    {L_SRE32, L_SRE256, L_SRE300, L_SREU3, L_SRELONGS, L_SRE4300, L_SRE4301,
     L_SREQ, L_CLS, L_RST, L_ESR, L_STB, L_OPC, L_BOGUS}

(***************************************************************************)
(* Command resolution and dispatch.                                        *)
(***************************************************************************)
\* the patterns of the commands
RE_IDN == "^\\*IDN\\?$"
RE_OPC == "^\\*OPC\\?$"
RE_RST == "^\\*RST$"
RE_CLS == "^\\*CLS$"
RE_ESR == "^\\*ESR\\?$"
RE_SRE_SET == "^\\*SRE\\s+(\\d+)$"
RE_SRE == "^\\*SRE\\?$"
RE_STB == "^\\*STB\\?$"
RE_SYST_ERR == "^SYST(?:em)?:ERR(?:or)?\\?$"
RE_OUTP_SET ==
    "^OUTP(?:ut)?(\\d+)?\\s+(ON|OFF|[01])$"
RE_OUTP ==
    "^OUTP(?:ut)?(\\d+)?\\?$"
RE_FUNC_SET ==
    "^(?:SOUR(?:ce)?(\\d+)?:)?FUNC(?:tion)?\\s+(\\w+)$"
RE_FUNC ==
    "^(?:SOUR(?:ce)?(\\d+)?:)?FUNC(?:tion)?\\?$"
RE_FREQ_SET ==
    "^(?:SOUR(?:ce)?(\\d+)?:)?FREQ(?:uency)?\\s+(\\S+)$"
RE_FREQ ==
    "^(?:SOUR(?:ce)?(\\d+)?:)?FREQ(?:uency)?\\?(?:\\s+(\\S+))?$"
RE_VOLT_SET ==
    "^(?:SOUR(?:ce)?(\\d+)?:)?VOLT(?:age)?\\s+(\\S+)$"
RE_VOLT ==
    "^(?:SOUR(?:ce)?(\\d+)?:)?VOLT(?:age)?\\?(?:\\s+(\\S+))?$"
RE_UNIT_SET ==
    "^(?:SOUR(?:ce)?(\\d+)?:)?VOLT(?:age)?:UNIT\\s+(\\w+)$"
RE_UNIT ==
    "^(?:SOUR(?:ce)?(\\d+)?:)?VOLT(?:age)?:UNIT\\?$"
RE_OFFS_SET ==
    "^(?:SOUR(?:ce)?(\\d+)?:)?VOLT(?:age)?:OFFS(?:et)?\\s+(\\S+)$"
RE_OFFS ==
    "^(?:SOUR(?:ce)?(\\d+)?:)?VOLT(?:age)?:OFFS(?:et)?\\?(?:\\s+(\\S+))?$"
RE_CAL_SET ==
    "^(?:SOUR(?:ce)?(\\d+)?:)?VOLT(?:age)?:CAL(?:ibration)?\\s+(\\S+)$"
RE_CAL ==
    "^(?:SOUR(?:ce)?(\\d+)?:)?VOLT(?:age)?:CAL(?:ibration)?\\?(?:\\s+(\\S+))?$"
RE_SYMM_SET ==
    "^(?:SOUR(?:ce)?(\\d+)?:)?FUNC(?:tion)?:RAMP:SYMM(?:etry)?\\s+(\\S+)$"
RE_SYMM ==
    "^(?:SOUR(?:ce)?(\\d+)?:)?FUNC(?:tion)?:RAMP:SYMM(?:etry)?\\?(?:\\s+(\\S+))?$"
RE_PHAS_SET ==
    "^(?:SOUR(?:ce)?(\\d+)?:)?PHAS(?:e)?\\s+(\\S+)$"
RE_PHAS ==
    "^(?:SOUR(?:ce)?(\\d+)?:)?PHAS(?:e)?\\?(?:\\s+(\\S+))?$"
RE_PER_SET ==
    "^(?:SOUR(?:ce)?(\\d+)?:)?PER(?:iod)?\\s+(\\S+)$"
RE_PER ==
    "^(?:SOUR(?:ce)?(\\d+)?:)?PER(?:iod)?\\?(?:\\s+(\\S+))?$"
RE_DCYC_SET ==
    "^(?:SOUR(?:ce)?(\\d+)?:)?FUNC(?:tion)?:SQU(?:are):DCYC(?:le)?\\s+(\\S+)$"
RE_DCYC ==
    "^(?:SOUR(?:ce)?(\\d+)?:)?FUNC(?:tion)?:SQU(?:are):DCYC(?:le)?\\?(?:\\s+(\\S+))?$"
RE_PWID_SET ==
    "^(?:SOUR(?:ce)?(\\d+)?:)?FUNC(?:tion)?:PUL(?:se):PWID(?:th)?\\s+(\\S+)$"
RE_PWID ==
    "^(?:SOUR(?:ce)?(\\d+)?:)?FUNC(?:tion)?:PUL(?:se):PWID(?:th)?\\?(?:\\s+(\\S+))?$"
RE_SWE_START_SET ==
    "^(?:SOUR(?:ce)?(\\d+)?:)?FUNC(?:tion):SWE(?:ep):FREQ(?:uency)?:STAR(?:t)?\\s+(\\S+)$"
RE_SWE_START ==
    "^(?:SOUR(?:ce)?(\\d+)?:)?FUNC(?:tion):SWE(?:ep):FREQ(?:uency)?:STAR(?:t)?\\?(?:\\s+(\\S+))?$"
RE_SWE_STOP_SET ==
    "^(?:SOUR(?:ce)?(\\d+)?:)?FUNC(?:tion):SWE(?:ep):FREQ(?:uency)?:STOP\\s+(\\S+)$"
RE_SWE_STOP ==
    "^(?:SOUR(?:ce)?(\\d+)?:)?FUNC(?:tion):SWE(?:ep):FREQ(?:uency)?:STOP\\?(?:\\s+(\\S+))?$"
RE_SWE_TIME_SET ==
    "^(?:SOUR(?:ce)?(\\d+)?:)?FUNC(?:tion)?:SWE(?:ep)?:TIME\\s+(\\S+)$"
RE_SWE_TIME ==
    "^(?:SOUR(?:ce)?(\\d+)?:)?FUNC(?:tion)?:SWE(?:ep)?:TIME\\?(?:\\s+(\\S+))?$"

\* @scpi_command(regex) above def name in the body of the class whose
\* qualified name is owner: func.__qualname__ is owner.name
Decorated(owner, name, regex) == [qualname |-> <<owner, name>>, regex |-> regex]

\* the decorated methods of ScpiInstrument, in the order of the class body
ScpiInstrumentBody ==
    << Decorated("ScpiInstrument", "get_identity", RE_IDN),
       Decorated("ScpiInstrument", "get_operation_complete", RE_OPC),
       Decorated("ScpiInstrument", "reset", RE_RST),
       Decorated("ScpiInstrument", "clear_status", RE_CLS),
       Decorated("ScpiInstrument", "esr_query", RE_ESR),
       Decorated("ScpiInstrument", "sre_set", RE_SRE_SET),
       Decorated("ScpiInstrument", "sre_query", RE_SRE),
       Decorated("ScpiInstrument", "stb_query", RE_STB),
       Decorated("ScpiInstrument", "get_system_error", RE_SYST_ERR) >>

\* the decorated methods of the ScpiSignalGenerator of utils/server.py, in
\* the order of the class body
ServerGeneratorBody ==
    << Decorated("ScpiSignalGenerator", "reset", RE_RST),
       Decorated("ScpiSignalGenerator", "set_output_enabled_command", RE_OUTP_SET),
       Decorated("ScpiSignalGenerator", "get_output_enabled_command", RE_OUTP),
       Decorated("ScpiSignalGenerator", "set_source_function_command", RE_FUNC_SET),
       Decorated("ScpiSignalGenerator", "get_source_function_command", RE_FUNC),
       Decorated("ScpiSignalGenerator", "set_source_frequency_command", RE_FREQ_SET),
       Decorated("ScpiSignalGenerator", "get_source_frequency_command", RE_FREQ),
       Decorated("ScpiSignalGenerator", "set_source_voltage_command", RE_VOLT_SET),
       Decorated("ScpiSignalGenerator", "get_source_voltage_command", RE_VOLT),
       Decorated("ScpiSignalGenerator", "set_source_voltage_unit_command", RE_UNIT_SET),
       Decorated("ScpiSignalGenerator", "get_source_voltage_unit_command", RE_UNIT),
       Decorated("ScpiSignalGenerator", "set_source_dc_offset_command", RE_OFFS_SET),
       Decorated("ScpiSignalGenerator", "get_source_dc_offset_command", RE_OFFS),
       Decorated("ScpiSignalGenerator", "set_source_calibration_command", RE_CAL_SET),
       Decorated("ScpiSignalGenerator", "get_source_calibration_command", RE_CAL),
       Decorated("ScpiSignalGenerator", "set_source_asymmetry_command", RE_SYMM_SET),
       Decorated("ScpiSignalGenerator", "get_source_asymmetry_command", RE_SYMM),
       Decorated("ScpiSignalGenerator", "set_source_phase_deg_command", RE_PHAS_SET),
       Decorated("ScpiSignalGenerator", "get_source_phase_deg_command", RE_PHAS),
       Decorated("ScpiSignalGenerator", "set_source_period_command", RE_PER_SET),
       Decorated("ScpiSignalGenerator", "get_source_period_command", RE_PER),
       Decorated("ScpiSignalGenerator", "set_source_duty_cycle_command", RE_DCYC_SET),
       Decorated("ScpiSignalGenerator", "get_source_duty_cycle_command", RE_DCYC),
       Decorated("ScpiSignalGenerator", "set_source_pulse_width_command", RE_PWID_SET),
       Decorated("ScpiSignalGenerator", "get_source_pulse_width_command", RE_PWID) >>

\* the decorated methods of the ScpiSignalGenerator of instruments/audio, in
\* the order of the class body: those of utils/server.py and the sweep
AudioGeneratorBody ==
    ServerGeneratorBody \o
    << Decorated("ScpiSignalGenerator", "set_source_sweep_start_frequency_command",
                 RE_SWE_START_SET),
       Decorated("ScpiSignalGenerator", "get_source_sweep_start_frequency_command",
                 RE_SWE_START),
       Decorated("ScpiSignalGenerator", "set_source_sweep_stop_frequency_command",
                 RE_SWE_STOP_SET),
       Decorated("ScpiSignalGenerator", "get_source_sweep_stop_frequency_command",
                 RE_SWE_STOP),
       Decorated("ScpiSignalGenerator", "set_source_sweep_time_command",
                 RE_SWE_TIME_SET),
       Decorated("ScpiSignalGenerator", "get_source_sweep_time_command",
                 RE_SWE_TIME) >>

\* the names of the methods of a class body
Methods(body) == {body[i].qualname[2] : i \in 1..Len(body)}

\* a class statement: its module, its __qualname__, its __bases__ and the
\* decorated methods of its body
ClassStatement(module, qualname, bases, body) ==
    [module |-> module, qualname |-> qualname, bases |-> bases, body |-> body]

\* the classes of the repository that register commands
ABC == ClassStatement("abc", "ABC", <<>>, <<>>)
ServerInstrument == ClassStatement("server", "ScpiInstrument", <<ABC>>, ScpiInstrumentBody)
ServerGenerator ==
    ClassStatement("server", "ScpiSignalGenerator", <<ServerInstrument>>, ServerGeneratorBody)
AudioGenerator ==
    ClassStatement("audio", "ScpiSignalGenerator", <<ServerInstrument>>, AudioGeneratorBody)

\* scpi_command(regex)(func): the registry after the decorator has run
scpi_command(SCPI_COMMANDS, func) ==
    LET keyed == {k \in 1..Len(SCPI_COMMANDS) : SCPI_COMMANDS[k].qualname = func.qualname}
    IN  IF keyed # {}
        THEN [SCPI_COMMANDS EXCEPT ![CHOOSE k \in keyed : TRUE].regexes =
                                       Append(@, func.regex)]
        ELSE Append(SCPI_COMMANDS,
                    [qualname |-> func.qualname, func |-> func.qualname[2],
                     regexes |-> <<func.regex>>])

\* the decorator of the i-th method of a class body has run: the registry
\* and the index of the next method
Decorating(st, body) ==
    [SCPI_COMMANDS |-> scpi_command(st.SCPI_COMMANDS, body[st.i]), i |-> st.i + 1]

\* the registry after the decorators of a class body have run, st the
\* registry and the index of the first that has not
RECURSIVE Registering(_, _)
Registering(st, body) ==
    IF st.i > Len(body) THEN st.SCPI_COMMANDS ELSE Registering(Decorating(st, body), body)

\* the registry after the decorators of a class body have run from the i-th
Registered(SCPI_COMMANDS, body, i) ==
    Registering([SCPI_COMMANDS |-> SCPI_COMMANDS, i |-> i], body)

\* the registry after the class statements have run in order from the i-th
RECURSIVE Loaded(_, _, _)
Loaded(SCPI_COMMANDS, classes, i) ==
    IF i > Len(classes) THEN SCPI_COMMANDS
    ELSE Loaded(Registered(SCPI_COMMANDS, classes[i].body, 1), classes, i + 1)

\* hasattr(self, name) for an instance of cls and the name of a handler: the
\* class or one of its ancestors defines it
RECURSIVE HasAttr(_, _)
HasAttr(cls, name) ==
    \/ name \in Methods(cls.body)
    \/ \E b \in 1..Len(cls.bases) : HasAttr(cls.bases[b], name)

\* qualname.startswith(i + "."), for a class name i without dots
StartsWith(qualname, i) == Len(qualname) > 1 /\ qualname[1] = i

\* any(qualname.startswith(i + ".") for i in qualnames), qualnames those of
\* the class of self and of its __bases__
Included(cls, qualname) ==
    \/ StartsWith(qualname, cls.qualname)
    \/ \E b \in 1..Len(cls.bases) : StartsWith(qualname, cls.bases[b].qualname)

\* for regex in regexes: self.commands.append((regex, func)), for the
\* entry of the registry
Appended(entry) ==
    [j \in 1..Len(entry.regexes) |-> [regex |-> entry.regexes[j], func |-> entry.func]]

\* the loop of ScpiInstrument.__init__ over SCPI_COMMANDS.items(): st is the
\* index k of the entry and self.commands before it, the result
\* [commands, exc]
RECURSIVE Resolving(_, _, _)
Resolving(cls, SCPI_COMMANDS, st) ==
    IF st.k > Len(SCPI_COMMANDS) THEN [commands |-> st.commands, exc |-> None]
    ELSE IF ~Included(cls, SCPI_COMMANDS[st.k].qualname)
    THEN Resolving(cls, SCPI_COMMANDS, [st EXCEPT !.k = @ + 1])
    ELSE IF ~HasAttr(cls, SCPI_COMMANDS[st.k].func)
    THEN [commands |-> st.commands, exc |-> Some(AttributeError(SCPI_COMMANDS[st.k].func))]
    ELSE Resolving(cls, SCPI_COMMANDS,
                   [k |-> st.k + 1, commands |-> st.commands \o Appended(SCPI_COMMANDS[st.k])])

\* ScpiInstrument.__init__ for an instance of cls: [commands, exc]
ScpiInstrument_init(cls, SCPI_COMMANDS) ==
    Resolving(cls, SCPI_COMMANDS, [k |-> 1, commands |-> <<>>])

\* self.commands of the instrument, an instance of the ScpiSignalGenerator of
\* instruments/audio: that module imports utils/server.py before its own
\* class statement runs
commands ==
    ScpiInstrument_init(AudioGenerator,
                        Loaded(<<>>, <<ServerInstrument, ServerGenerator, AudioGenerator>>, 1)).commands

\* regex.match(command)
Match(regex, command) ==
    CASE regex = RE_IDN -> MatchText(command, <<"*", "I", "D", "N", "?">>)
      [] regex = RE_OPC -> MatchText(command, <<"*", "O", "P", "C", "?">>)
      [] regex = RE_RST -> MatchText(command, <<"*", "R", "S", "T">>)
      [] regex = RE_CLS -> MatchText(command, <<"*", "C", "L", "S">>)
      [] regex = RE_ESR -> MatchText(command, <<"*", "E", "S", "R", "?">>)
      [] regex = RE_SRE_SET -> MatchSreSet(command)
      [] regex = RE_SRE -> MatchText(command, <<"*", "S", "R", "E", "?">>)
      [] regex = RE_STB -> MatchText(command, <<"*", "S", "T", "B", "?">>)
      [] regex = RE_SYST_ERR -> MatchSystemError(command)
      [] regex = RE_OUTP_SET -> MatchOutputSet(command)
      [] regex = RE_OUTP -> MatchOutputGet(command)
      [] regex = RE_FUNC_SET -> MatchFunctionSet(command)
      [] regex = RE_FUNC -> MatchFunctionGet(command)
      [] regex = RE_FREQ_SET -> MatchFrequencySet(command)
      [] regex = RE_FREQ -> MatchFrequencyGet(command)
      [] regex = RE_VOLT_SET -> MatchVoltageSet(command)
      [] regex = RE_VOLT -> MatchVoltageGet(command)
      [] regex = RE_UNIT_SET -> MatchVoltageUnitSet(command)
      [] regex = RE_UNIT -> MatchVoltageUnitGet(command)
      [] regex = RE_OFFS_SET -> MatchOffsetSet(command)
      [] regex = RE_OFFS -> MatchOffsetGet(command)
      [] regex = RE_CAL_SET -> MatchCalibrationSet(command)
      [] regex = RE_CAL -> MatchCalibrationGet(command)
      [] regex = RE_SYMM_SET -> MatchAsymmetrySet(command)
      [] regex = RE_SYMM -> MatchAsymmetryGet(command)
      [] regex = RE_PHAS_SET -> MatchPhaseSet(command)
      [] regex = RE_PHAS -> MatchPhaseGet(command)
      [] regex = RE_PER_SET -> MatchPeriodSet(command)
      [] regex = RE_PER -> MatchPeriodGet(command)
      [] regex = RE_DCYC_SET -> MatchDutyCycleSet(command)
      [] regex = RE_DCYC -> MatchDutyCycleGet(command)
      [] regex = RE_PWID_SET -> MatchPulseWidthSet(command)
      [] regex = RE_PWID -> MatchPulseWidthGet(command)
      [] regex = RE_SWE_START_SET -> MatchSweepStartSet(command)
      [] regex = RE_SWE_START -> MatchSweepStartGet(command)
      [] regex = RE_SWE_STOP_SET -> MatchSweepStopSet(command)
      [] regex = RE_SWE_STOP -> MatchSweepStopGet(command)
      [] regex = RE_SWE_TIME_SET -> MatchSweepTimeSet(command)
      [] regex = RE_SWE_TIME -> MatchSweepTimeGet(command)

\* func(*match.groups())
Invoke(func, self, groups) ==
    CASE func = "get_identity" -> get_identity(self)
      [] func = "get_operation_complete" -> get_operation_complete(self)
      [] func = "reset" -> reset(self)
      [] func = "clear_status" -> clear_status(self)
      [] func = "esr_query" -> esr_query(self)
      [] func = "sre_set" -> sre_set(self, groups[1][1])
      [] func = "sre_query" -> sre_query(self)
      [] func = "stb_query" -> stb_query(self)
      [] func = "get_system_error" -> get_system_error(self)
      [] func = "set_output_enabled_command" ->
             set_output_enabled_command(self, groups[1], groups[2])
      [] func = "get_output_enabled_command" ->
             get_output_enabled_command(self, groups[1])
      [] func = "set_source_function_command" ->
             set_source_function_command(self, groups[1], groups[2])
      [] func = "get_source_function_command" ->
             get_source_function_command(self, groups[1])
      [] func = "set_source_frequency_command" ->
             set_source_frequency_command(self, groups[1], groups[2])
      [] func = "get_source_frequency_command" ->
             get_source_frequency_command(self, groups[1], groups[2])
      [] func = "set_source_voltage_command" ->
             set_source_voltage_command(self, groups[1], groups[2])
      [] func = "get_source_voltage_command" ->
             get_source_voltage_command(self, groups[1], groups[2])
      [] func = "set_source_voltage_unit_command" ->
             set_source_voltage_unit_command(self, groups[1], groups[2])
      [] func = "get_source_voltage_unit_command" ->
             get_source_voltage_unit_command(self, groups[1])
      [] func = "set_source_dc_offset_command" ->
             set_source_dc_offset_command(self, groups[1], groups[2])
      [] func = "get_source_dc_offset_command" ->
             get_source_dc_offset_command(self, groups[1], groups[2])
      [] func = "set_source_calibration_command" ->
             set_source_calibration_command(self, groups[1], groups[2])
      [] func = "get_source_calibration_command" ->
             get_source_calibration_command(self, groups[1], groups[2])
      [] func = "set_source_asymmetry_command" ->
             set_source_asymmetry_command(self, groups[1], groups[2])
      [] func = "get_source_asymmetry_command" ->
             get_source_asymmetry_command(self, groups[1], groups[2])
      [] func = "set_source_phase_deg_command" ->
             set_source_phase_deg_command(self, groups[1], groups[2])
      [] func = "get_source_phase_deg_command" ->
             get_source_phase_deg_command(self, groups[1], groups[2])
      [] func = "set_source_period_command" ->
             set_source_period_command(self, groups[1], groups[2])
      [] func = "get_source_period_command" ->
             get_source_period_command(self, groups[1], groups[2])
      [] func = "set_source_duty_cycle_command" ->
             set_source_duty_cycle_command(self, groups[1], groups[2])
      [] func = "get_source_duty_cycle_command" ->
             get_source_duty_cycle_command(self, groups[1], groups[2])
      [] func = "set_source_pulse_width_command" ->
             set_source_pulse_width_command(self, groups[1], groups[2])
      [] func = "get_source_pulse_width_command" ->
             get_source_pulse_width_command(self, groups[1], groups[2])
      [] func = "set_source_sweep_start_frequency_command" ->
             set_source_sweep_start_frequency_command(self, groups[1], groups[2])
      [] func = "get_source_sweep_start_frequency_command" ->
             get_source_sweep_start_frequency_command(self, groups[1], groups[2])
      [] func = "set_source_sweep_stop_frequency_command" ->
             set_source_sweep_stop_frequency_command(self, groups[1], groups[2])
      [] func = "get_source_sweep_stop_frequency_command" ->
             get_source_sweep_stop_frequency_command(self, groups[1], groups[2])
      [] func = "set_source_sweep_time_command" ->
             set_source_sweep_time_command(self, groups[1], groups[2])
      [] func = "get_source_sweep_time_command" ->
             get_source_sweep_time_command(self, groups[1], groups[2])

\* the arithmetic
Arithmetic == {"FDiv", "FMul", "TrueDiv", "log10", "np_log10", "pow10", "Power10", "Pow10Value"}

\* the calls of arithmetic that the lines of the model make
KnownCalls ==
    {
      <<"FDiv",
        [a |-> Float(FALSE, <<1, 2, 5, 2, 9, 6, 8, 0, 8, 4, 0, 6, 8, 1, 8, 0, 5>>, 1),
         b |-> Float(FALSE, <<7, 7, 4, 5, 9, 6, 6, 6, 9, 2, 4, 1, 4, 8, 3, 4>>, 0)]>>,
      <<"FDiv",
        [a |-> Float(FALSE, <<1, 7, 3, 4, 1, 0, 5, 9, 3, 7, 2, 9, 5, 5, 3, 7, 2>>, 1),
         b |-> Float(FALSE, <<7, 7, 4, 5, 9, 6, 6, 6, 9, 2, 4, 1, 4, 8, 3, 4>>, 0)]>>,
      <<"FDiv",
        [a |-> Float(FALSE, <<2, 4, 7, 4, 8, 7, 3, 7, 3, 4, 1, 5, 2, 9, 1, 6, 3>>, 1),
         b |-> Float(FALSE, <<7, 7, 4, 5, 9, 6, 6, 6, 9, 2, 4, 1, 4, 8, 3, 4>>, 0)]>>,
      <<"FDiv",
        [a |-> Float(FALSE, <<3, 8, 8, 2, 1, 7, 9, 6, 1, 8, 3, 4, 0, 3, 8, 2>>, 0),
         b |-> Float(FALSE, <<7, 7, 4, 5, 9, 6, 6, 6, 9, 2, 4, 1, 4, 8, 3, 4>>, 0)]>>,
      <<"FDiv", [a |-> Float(FALSE, <<1>>, 1), b |-> Float(FALSE, <<1>>, -1)]>>,
      <<"FDiv", [a |-> Float(FALSE, <<1>>, 1), b |-> Float(FALSE, <<1>>, 3)]>>,
      <<"FDiv", [a |-> Float(FALSE, <<1>>, 1), b |-> Float(FALSE, <<1>>, 4)]>>,
      <<"FDiv", [a |-> Float(FALSE, <<1>>, 1), b |-> Float(FALSE, <<4, 8>>, 5)]>>,
      <<"FDiv", [a |-> Float(FALSE, <<1>>, 1), b |-> Float(FALSE, <<5>>, 1)]>>,
      <<"FDiv", [a |-> Float(FALSE, <<1>>, 6), b |-> Float(FALSE, <<2>>, 2)]>>,
      <<"FDiv",
        [a |-> Float(FALSE, <<2, 5>>, 1),
         b |-> Float(FALSE, <<7, 7, 4, 5, 9, 6, 6, 6, 9, 2, 4, 1, 4, 8, 3, 4>>, 0)]>>,
      <<"FDiv", [a |-> Float(FALSE, <<2, 5>>, 2), b |-> Float(FALSE, <<1>>, 3)]>>,
      <<"FDiv", [a |-> Float(FALSE, <<5>>, 0), b |-> Float(FALSE, <<1>>, 4)]>>,
      <<"FDiv", [a |-> Float(FALSE, <<5>>, 0), b |-> Float(FALSE, <<5>>, 1)]>>,
      <<"FDiv", [a |-> Float(TRUE, <<6>>, 1), b |-> Float(FALSE, <<2>>, 2)]>>,
      <<"FDiv",
        [a |-> Float(FALSE, <<7>>, 1),
         b |-> Float(FALSE, <<2, 8, 2, 8, 4, 2, 7, 1, 2, 4, 7, 4, 6, 1, 9, 0, 3>>, 1)]>>,
      <<"FDiv", [a |-> Float(FALSE, <<7>>, 1), b |-> Float(FALSE, <<2>>, 2)]>>,
      <<"FDiv",
        [a |-> PosInf,
         b |-> Float(FALSE, <<7, 7, 4, 5, 9, 6, 6, 6, 9, 2, 4, 1, 4, 8, 3, 4>>, 0)]>>,
      <<"FDiv",
        [a |-> Zero(FALSE),
         b |-> Float(FALSE, <<7, 7, 4, 5, 9, 6, 6, 6, 9, 2, 4, 1, 4, 8, 3, 4>>, 0)]>>,
      <<"FMul",
        [a |-> Float(FALSE, <<1, 2, 5, 2, 9, 6, 8, 0, 8, 4, 0, 6, 8, 1, 8, 0, 5>>, 1),
         b |-> Float(FALSE, <<2>>, 1)]>>,
      <<"FMul",
        [a |-> Float(FALSE, <<1, 5, 5, 2, 8, 7, 1, 8, 4, 7, 3, 3, 6, 1, 5, 3>>, 0),
         b |-> Float(FALSE, <<2, 5>>, 1)]>>,
      <<"FMul",
        [a |-> Float(FALSE, <<1, 7, 3, 4, 1, 0, 5, 9, 3, 7, 2, 9, 5, 5, 3, 7, 2>>, 1),
         b |-> Float(FALSE, <<2>>, 1)]>>,
      <<"FMul",
        [a |-> Float(FALSE, <<2, 2, 3, 8, 7, 2, 1, 1, 3, 8, 5, 6, 8, 3, 3, 9, 4>>, 1),
         b |-> Float(FALSE, <<7, 7, 4, 5, 9, 6, 6, 6, 9, 2, 4, 1, 4, 8, 3, 4>>, 0)]>>,
      <<"FMul",
        [a |-> Float(FALSE, <<2, 4, 7, 4, 8, 7, 3, 7, 3, 4, 1, 5, 2, 9, 1, 6, 3>>, 1),
         b |-> Float(FALSE, <<2>>, 1)]>>,
      <<"FMul",
        [a |-> Float(FALSE, <<2, 5, 0, 5, 9, 3, 6, 1, 6, 8, 1, 3, 6, 3, 6, 1>>, 1),
         b |-> Float(FALSE, <<1, 4, 1, 4, 2, 1, 3, 5, 6, 2, 3, 7, 3, 0, 9, 5, 1>>, 1)]>>,
      <<"FMul",
        [a |-> Float(FALSE, <<2, 8, 2, 8, 4, 2, 7, 1, 2, 4, 7, 4, 6, 1, 9>>, 0),
         b |-> Float(FALSE, <<3, 5, 3, 5, 5, 3, 3, 9, 0, 5, 9, 3, 2, 7, 3, 7, 8>>, 1)]>>,
      <<"FMul",
        [a |-> Float(FALSE, <<3, 4, 6, 8, 2, 1, 1, 8, 7, 4, 5, 9, 1, 0, 7, 4, 4>>, 1),
         b |-> Float(FALSE, <<1, 4, 1, 4, 2, 1, 3, 5, 6, 2, 3, 7, 3, 0, 9, 5, 1>>, 1)]>>,
      <<"FMul",
        [a |-> Float(FALSE, <<3, 8, 8, 2, 1, 7, 9, 6, 1, 8, 3, 4, 0, 3, 8, 2>>, 0),
         b |-> Float(FALSE, <<2>>, 1)]>>,
      <<"FMul",
        [a |-> Float(FALSE, <<4, 9, 4, 9, 7, 4, 7, 4, 6, 8, 3, 0, 5, 8, 3, 3>>, 1),
         b |-> Float(FALSE, <<1, 4, 1, 4, 2, 1, 3, 5, 6, 2, 3, 7, 3, 0, 9, 5, 1>>, 1)]>>,
      <<"FMul",
        [a |-> Float(FALSE, <<5, 0, 1, 1, 8, 7, 2, 3, 3, 6, 2, 7, 2, 7, 2, 2>>, 0),
         b |-> Float(FALSE, <<7, 7, 4, 5, 9, 6, 6, 6, 9, 2, 4, 1, 4, 8, 3, 4>>, 0)]>>,
      <<"FMul",
        [a |-> Float(FALSE, <<5, 0, 1, 1, 8, 7, 2, 3, 3, 6, 2, 7, 2, 7, 2, 2>>, 0),
         b |-> Float(FALSE, <<2, 5>>, 1)]>>,
      <<"FMul",
        [a |-> Float(FALSE, <<6, 9, 3, 6, 4, 2, 3, 7, 4, 9, 1, 8, 2, 1, 4, 9>>, 0),
         b |-> Float(FALSE, <<2, 5>>, 1)]>>,
      <<"FMul",
        [a |-> Float(FALSE, <<7, 7, 6, 4, 3, 5, 9, 2, 3, 6, 6, 8, 0, 7, 6, 5>>, 0),
         b |-> Float(FALSE, <<1, 4, 1, 4, 2, 1, 3, 5, 6, 2, 3, 7, 3, 0, 9, 5, 1>>, 1)]>>,
      <<"FMul",
        [a |-> Float(FALSE, <<9, 8, 9, 9, 4, 9, 4, 9, 3, 6, 6, 1, 1, 6, 6, 6>>, 0),
         b |-> Float(FALSE, <<2, 5>>, 1)]>>,
      <<"FMul", [a |-> Float(FALSE, <<1>>, -3), b |-> Float(FALSE, <<1>>, 3)]>>,
      <<"FMul", [a |-> Float(FALSE, <<1>>, -3), b |-> Float(FALSE, <<1>>, 4)]>>,
      <<"FMul", [a |-> Float(FALSE, <<1>>, 1), b |-> Float(FALSE, <<2, 5>>, 1)]>>,
      <<"FMul", [a |-> Float(FALSE, <<1>>, 1), b |-> PosInf]>>,
      <<"FMul", [a |-> Float(FALSE, <<1>>, 1), b |-> Zero(FALSE)]>>,
      <<"FMul",
        [a |-> Float(FALSE, <<2, 5>>, 1),
         b |-> Float(FALSE, <<1, 4, 1, 4, 2, 1, 3, 5, 6, 2, 3, 7, 3, 0, 9, 5, 1>>, 1)]>>,
      <<"FMul", [a |-> Float(FALSE, <<2, 5>>, 1), b |-> Float(FALSE, <<2>>, 1)]>>,
      <<"FMul",
        [a |-> Float(FALSE, <<2>>, 1),
         b |-> Float(FALSE, <<1, 4, 1, 4, 2, 1, 3, 5, 6, 2, 3, 7, 3, 0, 9, 5, 1>>, 1)]>>,
      <<"FMul",
        [a |-> Float(FALSE, <<2>>, 2),
         b |-> Float(TRUE, <<1, 5, 8, 8, 6, 4, 3, 8, 3, 4, 8, 0, 2, 1, 5, 8>>, 0)]>>,
      <<"FMul",
        [a |-> Float(FALSE, <<2>>, 2),
         b |-> Float(FALSE, <<2, 0, 8, 8, 6, 4, 3, 8, 3, 4, 8, 0, 2, 1, 5, 7>>, 0)]>>,
      <<"FMul",
        [a |-> Float(FALSE, <<2>>, 2),
         b |-> Float(TRUE, <<3, 0, 0, 0, 0, 0, 0, 0, 0, 0, 0, 0, 0, 0, 0, 0, 4>>, 0)]>>,
      <<"FMul",
        [a |-> Float(FALSE, <<2>>, 2),
         b |-> Float(TRUE, <<4, 3, 8, 6, 9, 6, 2, 1, 5, 3, 7, 5, 2, 5, 5, 1>>, -2)]>>,
      <<"FMul",
        [a |-> Float(FALSE, <<2>>, 2),
         b |-> Float(FALSE, <<5, 0, 4, 4, 7, 7, 4, 2, 1, 3, 2, 6, 4, 6, 3, 2>>, 0)]>>,
      <<"FMul",
        [a |-> Float(FALSE, <<2>>, 2),
         b |-> Float(FALSE, <<5, 0, 8, 8, 6, 4, 3, 8, 3, 4, 8, 0, 2, 1, 5, 8>>, 0)]>>,
      <<"FMul",
        [a |-> Float(FALSE, <<2>>, 2),
         b |-> Float(TRUE, <<8, 0, 8, 8, 6, 4, 3, 8, 3, 4, 8, 0, 2, 1, 5, 8>>, 0)]>>,
      <<"FMul", [a |-> Float(FALSE, <<2>>, 2), b |-> Float(FALSE, <<3, 5>>, 0)]>>,
      <<"FMul", [a |-> Float(FALSE, <<2>>, 2), b |-> PosInf]>>,
      <<"FMul", [a |-> Float(FALSE, <<2>>, 2), b |-> Zero(FALSE)]>>,
      <<"FMul", [a |-> Float(FALSE, <<2>>, 2), b |-> NegInf]>>,
      <<"FMul", [a |-> Float(FALSE, <<5>>, 0), b |-> Float(FALSE, <<1>>, 3)]>>,
      <<"FMul",
        [a |-> Float(FALSE, <<5>>, 1),
         b |-> Float(FALSE, <<1, 4, 1, 4, 2, 1, 3, 5, 6, 2, 3, 7, 3, 0, 9, 5, 1>>, 1)]>>,
      <<"FMul",
        [a |-> PosInf,
         b |-> Float(FALSE, <<1, 4, 1, 4, 2, 1, 3, 5, 6, 2, 3, 7, 3, 0, 9, 5, 1>>, 1)]>>,
      <<"FMul",
        [a |-> Zero(FALSE),
         b |-> Float(FALSE, <<1, 4, 1, 4, 2, 1, 3, 5, 6, 2, 3, 7, 3, 0, 9, 5, 1>>, 1)]>>,
      <<"FMul",
        [a |-> Zero(FALSE),
         b |-> Float(FALSE, <<3, 5, 3, 5, 5, 3, 3, 9, 0, 5, 9, 3, 2, 7, 3, 7, 8>>, 1)]>>,
      <<"Power10", [y |-> Float(FALSE, <<3, 5>>, 0)]>>,
      <<"Power10", [y |-> Float(TRUE, <<3>>, 0)]>>,
      <<"Power10", [y |-> Float(FALSE, <<5>>, 4)]>>,
      <<"TrueDiv",
        [a |-> Float(FALSE, <<1, 7, 3, 4, 1, 0, 5, 9, 3, 7, 2, 9, 5, 5, 3, 7, 2>>, 1),
         b |-> Float(FALSE, <<2, 5>>, 1)]>>,
      <<"TrueDiv",
        [a |-> Float(FALSE, <<2, 4, 7, 4, 8, 7, 3, 7, 3, 4, 1, 5, 2, 9, 1, 6, 3>>, 1),
         b |-> Float(FALSE, <<2, 5>>, 1)]>>,
      <<"TrueDiv",
        [a |-> Float(FALSE, <<3, 8, 8, 2, 1, 7, 9, 6, 1, 8, 3, 4, 0, 3, 8, 3>>, 0),
         b |-> Float(FALSE, <<2, 5>>, 1)]>>,
      <<"TrueDiv",
        [a |-> Float(FALSE, <<1>>, 1),
         b |-> Float(FALSE, <<3, 5, 3, 5, 5, 3, 3, 9, 0, 5, 9, 3, 2, 7, 3, 7, 8>>, 1)]>>,
      <<"TrueDiv", [a |-> Zero(FALSE), b |-> PosInf]>>,
      <<"TrueDiv", [a |-> Zero(FALSE), b |-> Zero(FALSE)]>>,
      <<"log10", [x |-> Float(FALSE, <<1, 5, 5, 2, 8, 7, 1, 8, 4, 7, 3, 3, 6, 1, 5, 3>>, 0)]>>,
      <<"log10", [x |-> Float(FALSE, <<5, 0, 1, 1, 8, 7, 2, 3, 3, 6, 2, 7, 2, 7, 2, 2>>, 0)]>>,
      <<"log10", [x |-> Float(FALSE, <<6, 9, 3, 6, 4, 2, 3, 7, 4, 9, 1, 8, 2, 1, 4, 9>>, 0)]>>,
      <<"log10", [x |-> Float(FALSE, <<9, 8, 9, 9, 4, 9, 4, 9, 3, 6, 6, 1, 1, 6, 6, 6>>, 0)]>>,
      <<"log10", [x |-> Float(FALSE, <<1>>, 1)]>>,
      <<"np_log10",
        [x |-> Float(FALSE, <<1, 6, 1, 7, 5, 7, 4, 8, 4, 0, 9, 7, 5, 1, 5, 9, 1>>, 1)]>>,
      <<"np_log10",
        [x |-> Float(FALSE, <<2, 2, 3, 8, 7, 2, 1, 1, 3, 8, 5, 6, 8, 3, 3, 9, 4>>, 1)]>>,
      <<"np_log10",
        [x |-> Float(FALSE, <<3, 1, 9, 5, 0, 4, 8, 2, 5, 2, 1, 1, 3, 4, 6, 9>>, 1)]>>,
      <<"np_log10",
        [x |-> Float(FALSE, <<3, 2, 2, 7, 4, 8, 6, 1, 2, 1, 8, 3, 9, 5, 1, 4>>, 1)]>>,
      <<"np_log10",
        [x |-> Float(FALSE, <<5, 0, 1, 1, 8, 7, 2, 3, 3, 6, 2, 7, 2, 7, 2, 2>>, 0)]>>,
      <<"np_log10", [x |-> PosInf]>>,
      <<"np_log10", [x |-> Zero(FALSE)]>>,
      <<"pow10", [y |-> Float(TRUE, <<3>>, 0)]>>
    }

\* the value of each of them, computed once
RECURSIVE Evaluated(_, _, _)
KnownValues == [c \in KnownCalls |-> Evaluated(c[1], c[2], FALSE)]

\* the value of a call of arithmetic, looked up in KnownValues or computed
Evaluated(name, args, known) ==
    IF known /\ <<name, args>> \in KnownCalls THEN KnownValues[<<name, args>>]
    ELSE CASE name = "FDiv" -> FDiv(args.a, args.b)
           [] name = "FMul" -> FMul(args.a, args.b)
           [] name = "TrueDiv" -> TrueDiv(args.a, args.b)
           [] name = "log10" -> log10(args.x)
           [] name = "np_log10" -> np_log10(args.x)
           [] name = "pow10" -> pow10(args.y)
           [] name = "Power10" -> Power10(args.y)
           [] name = "Pow10Value" -> Pow10Value(args.y)

\* the value of the call name(**args): the calls that the handlers make go
\* through this one operator, which TLC expands once however many handlers
\* make them, and which computes a call of KnownCalls once for all states
Called(name, args) ==
    IF name \in Arithmetic THEN Evaluated(name, args, TRUE)
    ELSE CASE name = "Invoke" ->
             Invoke(args.func, args.self, args.groups)
           [] name = "get_float_parameter" ->
             get_float_parameter(args.parameter, args.minimum, args.maximum, args.default_value, args.check_range)
           [] name = "get_float_parameter_value" ->
             get_float_parameter_value(args.parameter, args.minimum, args.maximum, args.default_value, args.current_value)
           [] name = "get_channel" ->
             get_channel(args.self, args.parameter)
           [] name = "get_voltage_limits" ->
             get_voltage_limits(args.self, args.channel)
           [] name = "get_int_parameter" ->
             get_int_parameter(args.parameter, args.minimum, args.maximum, args.default_value, args.check_range)

\* index of the first pattern at or after i that matches, 0 when none does
RECURSIVE FirstMatch(_, _)
FirstMatch(command, i) ==
    IF i > Len(commands) THEN 0
    ELSE IF Match(commands[i].regex, command).matched THEN i
    ELSE FirstMatch(command, i + 1)

\* the lines of the model
KnownLines ==
    Lines \cup SreLines \cup ChannelLines \cup UnitLines \cup ConfigLines
        \cup QueryLines \cup FaultLines

\* FirstMatch(command, 1) of each line of the model, evaluated once
FirstMatches == [command \in KnownLines |-> FirstMatch(command, 1)]

\* the outcome of handle_command: the fields after the call, the returned
\* response, the handlers that were invoked, and the exception that leaves
\* handle_command (None when it returns)
Outcome(self, response, invoked, raised) ==
    [self |-> self, response |-> response, invoked |-> invoked, raised |-> raised]

\* a variant of Caught that reports an SCPIError as a device error
Caught_scpi_as_device(func, r) ==
    IF r.exc = None THEN Outcome(r.self, r.ret, <<func>>, None)
    ELSE Outcome(push_error(r.self, -300, "Device error"), None, <<func>>, None)

\* a variant of Caught that reports the message of the fault it caught
Caught_leaking_message(func, r) ==
    IF r.exc = None THEN Outcome(r.self, r.ret, <<func>>, None)
    ELSE IF r.exc[1].type = "SCPIError"
    THEN Outcome(push_error(r.self, r.exc[1].code, r.exc[1].message), None, <<func>>, None)
    ELSE Outcome(push_error(r.self, -300, r.exc[1].message), None, <<func>>, None)

\* the except clauses of handle_command, r the result of the handler func
Caught(func, r) ==
    IF r.exc = None
    THEN Outcome(r.self, r.ret, <<func>>, None)
    ELSE IF r.exc[1].type = "SCPIError"
    THEN Outcome(push_error(r.self, r.exc[1].code, r.exc[1].message), None, <<func>>, None)
    ELSE IF IsException(r.exc[1])
    THEN Outcome(push_error(r.self, -300, "Device error"), None, <<func>>, None)
    ELSE Outcome(r.self, None, <<func>>, r.exc)

\* the handler of the pattern k run on the line, with the except clauses
Handling(self, command, k) ==
    Caught(commands[k].func,
           Called("Invoke",
                       [func |-> commands[k].func, self |-> self,
                        groups |-> Match(commands[k].regex, command).groups]))

\* the outcome of a second handler after the first
Following(first, second) ==
    Outcome(second.self, second.response, first.invoked \o second.invoked, second.raised)

\* the first handler has run: j the index of the next matching pattern
Continuing(command, first, j) ==
    IF j = 0 \/ first.raised # None THEN first
    ELSE Following(first, Handling(first.self, command, j))

\* a variant of Matching that goes on to the next matching pattern after the
\* first handler has run
Matching_every(self, command, i) ==
    IF i = 0
    THEN Outcome(push_error(self, -113, "Undefined header"), None, <<>>, None)
    ELSE Continuing(command, Handling(self, command, i), FirstMatch(command, i + 1))

\* a variant of Matching that ignores an unmatched line silently
Matching_silent(self, command, i) ==
    IF i = 0 THEN Outcome(self, None, <<>>, None)
    ELSE Caught(commands[i].func, Called("Invoke",
                       [func |-> commands[i].func, self |-> self,
                        groups |-> Match(commands[i].regex, command).groups]))

\* a variant of Matching that answers an unmatched line with the error
Matching_answering(self, command, i) ==
    IF i = 0 THEN Outcome(push_error(self, -113, "Undefined header"),
                          Some("-113,\"Undefined header\""), <<>>, None)
    ELSE Caught(commands[i].func, Called("Invoke",
                       [func |-> commands[i].func, self |-> self,
                        groups |-> Match(commands[i].regex, command).groups]))

\* the loop of handle_command, i the index of the first matching pattern
Matching(self, command, i) ==
    IF i = 0
    THEN Outcome(push_error(self, -113, "Undefined header"), None, <<>>, None)
    ELSE Caught(commands[i].func,
                Called("Invoke",
                       [func |-> commands[i].func, self |-> self,
                        groups |-> Match(commands[i].regex, command).groups]))

\* ScpiInstrument.handle_command; ScpiSignalGenerator.handle_command runs
\* it while holding audio_interface.lock
handle_command(self, command) ==
    Matching(self, command,
             IF command \in KnownLines THEN FirstMatches[command] ELSE FirstMatch(command, 1))

(***************************************************************************)
(* State and inputs.                                                       *)
(***************************************************************************)
Conns == {1, 2}

\* the thread of the audio stream, which runs AudioInterface.callback
AudioThread == 0

\* call before any call: before holds the fields as they were when the call
\* was made
NoCall == [op |-> "none", args |-> <<>>, before |-> None, response |-> None,
           invoked |-> <<>>, raised |-> None]

\* a connection before accept(): client_thread has not started
\* pending holds the bytes that the incremental decoder keeps for the next
\* call, stream all the bytes received so far, dispatched the calls of
\* handle_command made so far, as [command, response], and fault the class
\* of the exception that ended the thread (None for a thread that runs or
\* has returned)
NoConn == [state |-> "listening", pc |-> "none", buffer |-> <<>>, pending |-> <<>>,
           command |-> <<>>, response |-> None, out |-> <<>>, recvs |-> 0,
           stream |-> <<>>, dispatched |-> <<>>, fault |-> None]

Init ==
    /\ esr = 0
    /\ sre = 0
    /\ errors = <<>>
    /\ output_config = [i \in 1..OutputChannels |-> get_default_channel_config]
    /\ call = NoCall
    /\ conn = [c \in Conns |-> NoConn]
    /\ lock = None
    /\ audio = "idle"

\* the instrument's fields become those of the record
Becomes(self) ==
    /\ esr' = self.esr
    /\ sre' = self.sre
    /\ errors' = self.errors
    /\ output_config' = self.output_config

(***************************************************************************)
(* Inputs of the direct calls.                                             *)
(***************************************************************************)
\* error codes given to push_error: both sides of every class boundary
Codes == {-430, -401, -400, -399, -301, -300, -299, -201, -200, -199, -113,
          -101, -100, -99, 0, 5}

(***************************************************************************)
(* Direct calls of the status model (specification SpecStatus).            *)
(***************************************************************************)
CallPushError(code, message) ==
    /\ Len(errors) < MaxErrors
    /\ Becomes(push_error(Self, code, message))
    /\ call' = [NoCall EXCEPT !.op = "push_error", !.args = <<code, message>>,
                              !.before = Some(Self)]
    /\ UNCHANGED <<conn, lock, audio>>

CallClearStatus ==
    /\ Becomes(clear_status(Self).self)
    /\ call' = [NoCall EXCEPT !.op = "clear_status", !.before = Some(Self)]
    /\ UNCHANGED <<conn, lock, audio>>

NextStatus ==
    \/ \E code \in Codes : CallPushError(code, "message")
    \/ CallClearStatus

SpecStatus == Init /\ [][NextStatus]_vars

(***************************************************************************)
(* Direct calls of handle_command (specification SpecInstrument).          *)
(***************************************************************************)
\* the ScpiSignalGenerator of instruments/audio runs handle_command `with
\* self.audio_interface.lock`, which waits while another thread holds the
\* lock, and has released it when the call returns
CallHandleCommand(command) ==
    \E r \in {handle_command(Self, command)} :
        /\ lock = None
        /\ Len(r.self.errors) <= MaxErrors
        /\ Becomes(r.self)
        /\ call' = [op |-> "handle_command", args |-> <<command>>,
                    before |-> Some(Self), response |-> r.response, invoked |-> r.invoked, raised |-> r.raised]
        /\ UNCHANGED <<conn, lock, audio>>

NextInstrument == \E command \in Lines : CallHandleCommand(command)

SpecInstrument == Init /\ [][NextInstrument]_vars

(***************************************************************************)
(* Errors queued by push_error, which a personality calls with messages of *)
(* its own, and read back by SYSTem:ERRor? (specification SpecQueue).      *)
(***************************************************************************)
\* messages given to push_error: without and with double quotes
Messages == {"Device error", "unit \"dBm\" unknown"}

NextQueue ==
    \/ \E code \in Codes, message \in Messages : CallPushError(code, message)
    \/ CallHandleCommand(L_SYSTERR)
    \/ CallClearStatus

SpecQueue == Init /\ [][NextQueue]_vars

(***************************************************************************)
(* Direct calls of handle_command with the commands that read, set or      *)
(* might disturb the service request enable register, and with those that  *)
(* read the status byte it masks (specification SpecSre).                  *)
(***************************************************************************)
NextSre == \E command \in SreLines : CallHandleCommand(command)

SpecSre == Init /\ [][NextSre]_vars

(***************************************************************************)
(* Direct calls of the parameter coercion helpers of both classes          *)
(* (specification SpecCoerce).  call.args is <<class, parameter, minimum,  *)
(* maximum, default_value, check_range>>, call.response the value returned *)
(* and call.raised the exception raised.                                   *)
(***************************************************************************)
T_min == Text(<<"m", "i", "n">>)
T_MINIMUM == Text(<<"M", "I", "N", "I", "M", "U", "M">>)
T_Max == Text(<<"M", "a", "x">>)
T_maximum == Text(<<"m", "a", "x", "i", "m", "u", "m">>)
T_def == Text(<<"d", "e", "f">>)
T_DEFault == Text(<<"D", "E", "F", "a", "u", "l", "t">>)
T_abc == Text(<<"a", "b", "c">>)
T_15 == Text(<<"1", "5">>)
T_5 == Text(<<"5">>)
T_neg3 == Text(<<"-", "3">>)
T_2p5 == Text(<<"2", ".", "5">>)
T_0 == Text(<<"0">>)
T_10 == Text(<<"1", "0">>)
T_1e1 == Text(<<"1", "e", "1">>)
T_1_0 == Text(<<"1", "_", "0">>)
T_neg0 == Text(<<"-", "0">>)
T_tab7 == Text(<<"\t", "7", "\n">>)
\* the Arabic-Indic digit five (U+0665)
T_u5 == <<1637>>
\* "min" written with the dotless i (U+0131)
T_min_dotless == <<109, 305, 110>>
\* the texts that float() reads as a NaN and as infinity
T_nan == Text(<<"n", "a", "n">>)
T_inf == Text(<<"i", "n", "f">>)

Tokens ==
    {T_min, T_MINIMUM, T_Max, T_maximum, T_def, T_DEFault, T_abc, T_15, T_5,
     T_neg3, T_2p5, T_0, T_10, T_1e1, T_1_0, T_neg0, T_tab7, T_u5, T_min_dotless,
     T_nan, T_inf}

Classes == {"ScpiInstrument", "ScpiSignalGenerator"}

\* the bounds and defaults given to get_int_parameter
IntMinimums == {0}
IntMaximums == {10}
IntDefaults == {5, 50}

\* the bounds and defaults given to get_float_parameter
FloatMinimums == {None, Some(Num(0))}
FloatMaximums == {None, Some(Num(10000))}
FloatDefaults == {None, Some(Num(5000)), Some(Num(50000))}

\* the result [val, exc] of a helper as the fields of a call record
Coerced(op, args, r) ==
    [op |-> op, args |-> args, before |-> None,
     response |-> IF r.exc = None THEN Some(r.val) ELSE None,
     invoked |-> <<>>, raised |-> r.exc]

CallGetIntParameter(class, parameter, minimum, maximum, default_value, check_range) ==
    /\ call' = Coerced("get_int_parameter",
                       <<class, parameter, minimum, maximum, default_value, check_range>>,
                       IF class = "ScpiInstrument"
                       THEN ScpiInstrument_get_int_parameter(parameter, minimum, maximum,
                                                             default_value, check_range)
                       ELSE get_int_parameter(parameter, minimum, maximum,
                                              default_value, check_range))
    /\ UNCHANGED <<esr, sre, errors, output_config, conn, lock, audio>>

CallGetFloatParameter(class, parameter, minimum, maximum, default_value, check_range) ==
    /\ call' = Coerced("get_float_parameter",
                       <<class, parameter, minimum, maximum, default_value, check_range>>,
                       IF class = "ScpiInstrument"
                       THEN ScpiInstrument_get_float_parameter(parameter, minimum, maximum,
                                                               default_value, check_range)
                       ELSE get_float_parameter(parameter, minimum, maximum,
                                                default_value, check_range))
    /\ UNCHANGED <<esr, sre, errors, output_config, conn, lock, audio>>

NextCoerce ==
    \E class \in Classes, parameter \in Tokens, check_range \in BOOLEAN :
        \/ \E minimum \in IntMinimums, maximum \in IntMaximums, default_value \in IntDefaults :
               CallGetIntParameter(class, parameter, minimum, maximum, default_value,
                                   check_range)
        \/ \E minimum \in FloatMinimums, maximum \in FloatMaximums,
                default_value \in FloatDefaults :
               CallGetFloatParameter(class, parameter, minimum, maximum, default_value,
                                     check_range)

SpecCoerce == Init /\ [][NextCoerce]_vars

(***************************************************************************)
(* Direct calls of handle_command with the setters of the configuration of *)
(* a channel, with tokens, names and channel suffixes that the handlers    *)
(* reject among them (specification SpecChannel).                          *)
(***************************************************************************)
NextChannel == \E command \in ChannelLines : CallHandleCommand(command)

SpecChannel == Init /\ [][NextChannel]_vars

(***************************************************************************)
(* Direct calls of handle_command with the commands of the voltage, of its *)
(* unit and of the calibration (specification SpecUnit).                   *)
(***************************************************************************)
NextUnit == \E command \in UnitLines : CallHandleCommand(command)

SpecUnit == Init /\ [][NextUnit]_vars

(***************************************************************************)
(* Direct calls of handle_command with a line for every field of the       *)
(* configuration of a channel, and *RST (specification SpecConfig).  The   *)
(* lines of ConfigScript are dispatched in its order, any of them left     *)
(* out; *RST is dispatched at any moment, and the script starts again      *)
(* after it.                                                               *)
(***************************************************************************)
\* the place in ConfigScript of the most recent line, 0 before the first
\* line and after *RST
Place ==
    IF call.op = "handle_command" /\ call.args[1] # L_RST
    THEN CHOOSE i \in 1..Len(ConfigScript) : ConfigScript[i] = call.args[1]
    ELSE 0

NextConfig ==
    \/ \E i \in 1..Len(ConfigScript) : i > Place /\ CallHandleCommand(ConfigScript[i])
    \/ CallHandleCommand(L_RST)

SpecConfig == Init /\ [][NextConfig]_vars

(***************************************************************************)
(* Direct calls of handle_command with commands whose handlers fail with   *)
(* exceptions of several classes (specification SpecFault).                *)
(***************************************************************************)
NextFault == \E command \in FaultLines : CallHandleCommand(command)

SpecFault == Init /\ [][NextFault]_vars

(***************************************************************************)
(* Parameter queries: direct calls of get_float_parameter_value of both    *)
(* classes, and of handle_command with the queries of the signal generator *)
(* (specification SpecQuery).  call.args of a direct call is <<class,      *)
(* parameter, minimum, maximum, default_value, current_value>>.            *)
(***************************************************************************)
\* the parameter of a query: None when the optional group did not match
QueryParameters ==
    {None, Some(T_min), Some(T_Max), Some(T_DEFault), Some(T_abc), Some(T_5)}

\* <<minimum, maximum, default_value>> given to get_float_parameter_value:
\* each of the three unset in turn
QueryBounds ==
    { <<None, Some(Num(10000)), Some(Num(5000))>>,
      <<Some(NegInf), None, Some(Num(5000))>>,
      <<Some(Num(0)), Some(Num(10000)), None>> }

\* the current values given to get_float_parameter_value
QueryCurrents == {Num(-125)}

CallGetFloatParameterValue(class, parameter, minimum, maximum, default_value, current_value) ==
    /\ call' = Coerced("get_float_parameter_value",
                       <<class, parameter, minimum, maximum, default_value, current_value>>,
                       IF class = "ScpiInstrument"
                       THEN ScpiInstrument_get_float_parameter_value(
                                parameter, minimum, maximum, default_value, current_value)
                       ELSE get_float_parameter_value(
                                parameter, minimum, maximum, default_value, current_value))
    /\ UNCHANGED <<esr, sre, errors, output_config, conn, lock, audio>>

NextQuery ==
    \/ \E command \in QueryLines : CallHandleCommand(command)
    \/ \E class \in Classes, parameter \in QueryParameters, bounds \in QueryBounds,
          current_value \in QueryCurrents :
           CallGetFloatParameterValue(class, parameter, bounds[1], bounds[2], bounds[3],
                                      current_value)

SpecQuery == Init /\ [][NextQuery]_vars

(***************************************************************************)
(* The line server (specification Spec): ScpiServer.start accepts          *)
(* connections and runs client_thread for each in a thread of its own.     *)
(* conn[c] holds the locals of the client_thread of connection c and, in   *)
(* out, the lines written to its socket.                                   *)
(***************************************************************************)
NL == Text(<<"\n">>)

\* a line that is not UTF-8: the byte 0xFF and a newline
B_UNDECODABLE == <<255>> \o NL

\* the data a recv() may return, as bytes: queries of the status model and
\* of the signal generator, an undefined header, a command whose handler
\* raises SCPIError, one whose handler fails otherwise, a blank line, and a
\* line that is not UTF-8
Chunks ==
    {L_IDN \o NL, L_ESR \o NL, L_SYSTERR \o NL, L_FUNCQ \o NL, L_BOGUS \o NL,
     L_DCYC150 \o NL, L_DCYCNAN \o NL, NL, B_UNDECODABLE}

RECURSIVE SumRecvs(_)
SumRecvs(S) ==
    IF S = {} THEN 0
    ELSE LET c == CHOOSE x \in S : TRUE IN conn[c].recvs + SumRecvs(S \ {c})

\* index of the first newline of the buffer, 0 when there is none
RECURSIVE Find(_, _, _)
Find(s, ch, i) ==
    IF i > Len(s) THEN 0 ELSE IF s[i] = ch THEN i ELSE Find(s, ch, i + 1)

\* the bytes 0x80 to 0xBF continue a UTF-8 sequence
IsContinuation(b) == b \in 128..191

\* the number of bytes of the UTF-8 sequence that the byte b starts, 0 for
\* a byte that starts none (0x80 to 0xC1, 0xF5 to 0xFF)
SequenceLength(b) ==
    IF b < 128 THEN 1
    ELSE IF b \in 194..223 THEN 2
    ELSE IF b \in 224..239 THEN 3
    ELSE IF b \in 240..244 THEN 4
    ELSE 0

\* the second bytes that may follow the first byte b of a sequence of three
\* or four bytes: no overlong form, no surrogate, nothing beyond U+10FFFF
SecondBytes(b) ==
    CASE b = 224 -> 160..191
      [] b = 237 -> 128..159
      [] b = 240 -> 144..191
      [] b = 244 -> 128..143
      [] OTHER -> 128..191

\* the code point written by the n bytes of s from position i on
CodePoint(s, i, n) ==
    CASE n = 1 -> s[i]
      [] n = 2 -> (s[i] - 192) * 64 + (s[i + 1] - 128)
      [] n = 3 -> (s[i] - 224) * 4096 + (s[i + 1] - 128) * 64 + (s[i + 2] - 128)
      [] n = 4 -> (s[i] - 240) * 262144 + (s[i + 1] - 128) * 4096
                      + (s[i + 2] - 128) * 64 + (s[i + 3] - 128)

\* what stands at position i of the bytes s: a whole sequence ("char"), the
\* beginning of one that the end of the data cuts short ("incomplete"), or
\* bytes that are not UTF-8 ("invalid").  The decoder looks at the bytes it
\* has: a second byte out of range is invalid at once, except that the two
\* bytes of a surrogate at the very end of the data are kept for the next call
SequenceAt(s, i) ==
    LET n == SequenceLength(s[i])
        have == Len(s) - i + 1
    IN  IF n = 0 THEN "invalid"
        ELSE IF n = 1 THEN "char"
        ELSE IF have = 1 THEN "incomplete"
        ELSE IF n = 2 THEN (IF IsContinuation(s[i + 1]) THEN "char" ELSE "invalid")
        ELSE IF s[i + 1] \notin SecondBytes(s[i])
        THEN (IF s[i] = 237 /\ have = 2 /\ IsContinuation(s[i + 1])
              THEN "incomplete" ELSE "invalid")
        ELSE IF have = 2 THEN "incomplete"
        ELSE IF ~IsContinuation(s[i + 2]) THEN "invalid"
        ELSE IF n = 3 THEN "char"
        ELSE IF have = 3 THEN "incomplete"
        ELSE IF IsContinuation(s[i + 3]) THEN "char" ELSE "invalid"

\* codecs.utf_8_decode(data, "strict", False) from position i on, text the
\* characters decoded so far: [text, rest, exc], the decoded characters, the
\* bytes of an incomplete sequence at the end, and the UnicodeDecodeError
\* raised for bytes that are not UTF-8
RECURSIVE utf_8_decode(_, _, _)
utf_8_decode(data, i, text) ==
    IF i > Len(data) THEN [text |-> text, rest |-> <<>>, exc |-> None]
    ELSE CASE SequenceAt(data, i) = "char" ->
                  utf_8_decode(data, i + SequenceLength(data[i]),
                               Append(text, CodePoint(data, i, SequenceLength(data[i]))))
           [] SequenceAt(data, i) = "incomplete" ->
                  [text |-> text, rest |-> SubSeq(data, i, Len(data)), exc |-> None]
           [] SequenceAt(data, i) = "invalid" ->
                  [text |-> <<>>, rest |-> <<>>, exc |-> Some("UnicodeDecodeError")]

\* decoder.decode(data) of the incremental decoder whose buffer holds the
\* bytes pending: it decodes the buffer followed by the data
decode(pending, data) == utf_8_decode(pending \o data, 1, <<>>)

\* the thread has ended, by a return (exc is None) or by the exception exc
\* that nothing caught: the `with connection` block has closed the socket
Ended(k, how, exc) ==
    [k EXCEPT !.state = "closed", !.pc = how, !.buffer = <<>>, !.pending = <<>>,
              !.command = <<>>, !.response = None, !.fault = exc]

\* s.accept() returns connection c and its thread starts
Accept(c) ==
    /\ conn[c].state = "listening"
    /\ conn' = [conn EXCEPT ![c] = [@ EXCEPT !.state = "open", !.pc = "recv"]]
    /\ UNCHANGED <<esr, sre, errors, output_config, call, lock, audio>>

\* the thread of connection c after recv() has returned data and
\* decoder.decode(data) has returned or raised r
Received(k, data, r, buffer) ==
    IF r.exc # None
    THEN Ended([k EXCEPT !.recvs = @ + 1, !.stream = @ \o data], "crashed", r.exc)
    ELSE [k EXCEPT !.buffer = buffer \o r.text, !.pending = r.rest, !.pc = "lines",
                   !.recvs = @ + 1, !.stream = @ \o data]

\* a variant of Recv that keeps only the latest read in the buffer
Recv_overwriting(c, data) ==
    /\ conn[c].pc = "recv"
    /\ SumRecvs(Conns) < MaxRecv
    /\ conn' = [conn EXCEPT ![c] = Received(@, data, decode(@.pending, data), <<>>)]
    /\ UNCHANGED <<esr, sre, errors, output_config, call, lock, audio>>

\* connection.recv(1024) returns data: buffer += decoder.decode(data), which
\* raises UnicodeDecodeError for bytes that are not UTF-8; nothing catches
\* it and the thread ends
Recv(c, data) ==
    /\ conn[c].pc = "recv"
    /\ SumRecvs(Conns) < MaxRecv
    /\ conn' = [conn EXCEPT ![c] = Received(@, data, decode(@.pending, data), @.buffer)]
    /\ UNCHANGED <<esr, sre, errors, output_config, call, lock, audio>>

\* connection.recv(1024) returns b"": break
RecvEOF(c) ==
    /\ conn[c].pc = "recv"
    /\ conn' = [conn EXCEPT ![c] = Ended(@, "done", None)]
    /\ UNCHANGED <<esr, sre, errors, output_config, call, lock, audio>>

\* connection.recv(1024) raises ConnectionResetError: return
RecvReset(c) ==
    /\ conn[c].pc = "recv"
    /\ conn' = [conn EXCEPT ![c] = Ended(@, "done", None)]
    /\ UNCHANGED <<esr, sre, errors, output_config, call, lock, audio>>

\* connection.recv(1024) raises ConnectionAbortedError, which is not a
\* ConnectionResetError: not caught, the thread ends with it
RecvAborted(c) ==
    /\ conn[c].pc = "recv"
    /\ conn' = [conn EXCEPT ![c] = Ended(@, "crashed", Some("ConnectionAbortedError"))]
    /\ UNCHANGED <<esr, sre, errors, output_config, call, lock, audio>>

\* connection.recv(1024) raises another OSError (a timeout, a socket that
\* the network took down): not caught, the thread ends with it
RecvFault(c) ==
    /\ conn[c].pc = "recv"
    /\ conn' = [conn EXCEPT ![c] = Ended(@, "crashed", Some("OSError"))]
    /\ UNCHANGED <<esr, sre, errors, output_config, call, lock, audio>>

\* while "\n" in buffer: false, back to recv
AwaitData(c) ==
    /\ conn[c].pc = "lines"
    /\ Find(conn[c].buffer, 10, 1) = 0
    /\ conn' = [conn EXCEPT ![c] = [@ EXCEPT !.pc = "recv"]]
    /\ UNCHANGED <<esr, sre, errors, output_config, call, lock, audio>>

\* line, buffer = buffer.split("\n", 1); command = line.strip() is empty: continue
SkipEmptyLine(c) ==
    LET n == Find(conn[c].buffer, 10, 1)
        command == Strip(SubSeq(conn[c].buffer, 1, n - 1))
    IN  /\ conn[c].pc = "lines"
        /\ n > 0
        /\ command = <<>>
        /\ conn' = [conn EXCEPT ![c] =
                        [@ EXCEPT !.buffer = SubSeq(@, n + 1, Len(@)), !.command = command]]
        /\ UNCHANGED <<esr, sre, errors, output_config, call, lock, audio>>

\* a variant of Enter that does not take the lock's state into account, as
\* ScpiInstrument.handle_command called without the lock would
Enter_unlocked(c) ==
    LET n == Find(conn[c].buffer, 10, 1)
        command == Strip(SubSeq(conn[c].buffer, 1, n - 1))
    IN  /\ conn[c].pc = "lines"
        /\ n > 0
        /\ command # <<>>
        /\ lock' = Some(c)
        /\ conn' = [conn EXCEPT ![c] = [@ EXCEPT !.pc = "handling"]]
        /\ UNCHANGED <<esr, sre, errors, output_config, call, audio>>

\* line, buffer = buffer.split("\n", 1); command = line.strip() is not
\* empty; handle_command(command): `with self.audio_interface.lock` waits
\* for the lock and takes it
Enter(c) ==
    LET n == Find(conn[c].buffer, 10, 1)
        command == Strip(SubSeq(conn[c].buffer, 1, n - 1))
    IN  /\ conn[c].pc = "lines"
        /\ n > 0
        /\ command # <<>>
        /\ lock = None
        /\ lock' = Some(c)
        /\ conn' = [conn EXCEPT ![c] = [@ EXCEPT !.pc = "handling"]]
        /\ UNCHANGED <<esr, sre, errors, output_config, call, audio>>

\* handle_command(command) has run under the lock with the outcome r, n the
\* index of the newline that ends the line: the fields of the device are
\* those of r, the lock is released, and the thread goes on to send the
\* response or to the next line; an exception that handle_command does not
\* catch ends the thread
Dispatching(c, n, command, r) ==
    /\ conn[c].pc = "handling"
    /\ Len(r.self.errors) <= MaxErrors
    /\ Becomes(r.self)
    /\ conn' = [conn EXCEPT ![c] =
           IF r.raised # None THEN Ended(@, "crashed", Some(r.raised[1].type))
           ELSE [@ EXCEPT !.buffer = SubSeq(@, n + 1, Len(@)),
                          !.command = command,
                          !.response = r.response,
                          !.dispatched = Append(@, [command |-> command,
                                                    response |-> r.response]),
                          !.pc = IF r.response # None THEN "send" ELSE "lines"]]
    /\ lock' = None
    /\ UNCHANGED <<call, audio>>

\* a variant of Dispatch that keeps the lock while the response is sent
Dispatch_holding(c) ==
    LET n == Find(conn[c].buffer, 10, 1)
        command == Strip(SubSeq(conn[c].buffer, 1, n - 1))
    IN  /\ conn[c].pc = "handling"
        /\ \E r \in {handle_command(Self, command)} :
               /\ Len(r.self.errors) <= MaxErrors
               /\ Becomes(r.self)
               /\ conn' = [conn EXCEPT ![c] =
                      [@ EXCEPT !.buffer = SubSeq(@, n + 1, Len(@)),
                                !.command = command,
                                !.response = r.response,
                                !.dispatched = Append(@, [command |-> command,
                                                          response |-> r.response]),
                                !.pc = IF r.response # None THEN "send" ELSE "lines"]]
               /\ lock' = IF r.response # None THEN Some(c) ELSE None
        /\ UNCHANGED <<call, audio>>

\* response = super().handle_command(command) inside the `with` block, which
\* releases the lock however the block is left
Dispatch(c) ==
    LET n == Find(conn[c].buffer, 10, 1)
        command == Strip(SubSeq(conn[c].buffer, 1, n - 1))
    IN  /\ conn[c].pc = "handling"
        /\ \E r \in {handle_command(Self, command)} : Dispatching(c, n, command, r)

\* a variant of Send that writes to the connection accepted last (a
\* connection variable shared by the threads) instead of the thread's own
Send_shared(c) ==
    /\ conn[c].pc = "send"
    /\ conn' = [d \in Conns |->
                    IF d = CHOOSE m \in Conns :
                               /\ conn[m].state = "open"
                               /\ \A k \in Conns : conn[k].state = "open" => k <= m
                    THEN [conn[d] EXCEPT !.out = Append(@, conn[c].response[1] \o "\n"),
                                         !.pc = IF d = c THEN "lines" ELSE @]
                    ELSE [conn[d] EXCEPT !.pc = IF d = c THEN "lines" ELSE @]]
    /\ UNCHANGED <<esr, sre, errors, output_config, call, lock, audio>>

\* connection.sendall(response.encode() + b"\n")
Send(c) ==
    /\ conn[c].pc = "send"
    /\ conn' = [conn EXCEPT ![c] =
                    [@ EXCEPT !.out = Append(@, conn[c].response[1] \o "\n"), !.pc = "lines"]]
    /\ UNCHANGED <<esr, sre, errors, output_config, call, lock, audio>>

\* connection.sendall raises OSError (the peer is gone): not caught
SendFault(c) ==
    /\ conn[c].pc = "send"
    /\ conn' = [conn EXCEPT ![c] = Ended(@, "crashed", Some("BrokenPipeError"))]
    /\ UNCHANGED <<esr, sre, errors, output_config, call, lock, audio>>

Next ==
    \E c \in Conns :
        \/ Accept(c)
        \/ \E data \in Chunks : Recv(c, data)
        \/ RecvEOF(c)
        \/ RecvReset(c)
        \/ RecvAborted(c)
        \/ RecvFault(c)
        \/ AwaitData(c)
        \/ SkipEmptyLine(c)
        \/ Enter(c)
        \/ Dispatch(c)
        \/ Send(c)
        \/ SendFault(c)

Spec == Init /\ [][Next]_vars

(***************************************************************************)
(* The line server fed with reads that split and join lines, and with      *)
(* commands that have no query form (specification SpecFraming).           *)
(***************************************************************************)
\* "*ID" and "N?\n": one line in two reads
P_ID == Text(<<"*", "I", "D">>)
P_N == Text(<<"N", "?", "\n">>)

\* " *CLS" followed by a no-break space (U+00A0, the bytes 0xC2 0xA0), cut
\* between the two bytes of that character, and the rest of the line
P_CLS == Text(<<" ">>) \o L_CLS \o <<194>>
P_NBSP == <<160>> \o Text(<<"\r", "\n">>)

\* the data a recv() may return: a partial line, its completion, two lines
\* in one read, a line with surrounding whitespace cut inside a character,
\* a blank line, two setters
FrameChunks ==
    {P_ID, P_N,
     L_SRE32 \o NL \o L_RST \o NL,
     P_CLS, P_NBSP,
     Text(<<" ", "\r", "\n">>),
     L_DCYC25 \o NL, L_OUTPON \o NL}

NextFraming ==
    \E c \in Conns :
        \/ Accept(c)
        \/ \E data \in FrameChunks : Recv(c, data)
        \/ RecvEOF(c)
        \/ AwaitData(c)
        \/ SkipEmptyLine(c)
        \/ Enter(c)
        \/ Dispatch(c)
        \/ Send(c)

SpecFraming == Init /\ [][NextFraming]_vars

(***************************************************************************)
(* The line server next to the audio stream, whose callback takes the      *)
(* same lock (specification SpecLock).                                     *)
(***************************************************************************)
\* AudioInterface.callback: `with self.lock` waits for the lock and takes it
CallbackEnter ==
    /\ audio = "idle"
    /\ lock = None
    /\ lock' = Some(AudioThread)
    /\ audio' = "callback"
    /\ UNCHANGED <<esr, sre, errors, output_config, call, conn>>

\* AudioInterface.callback: the block has filled out_data from output_config
\* (the phases it advances are not part of the model) and releases the lock
CallbackExit ==
    /\ audio = "callback"
    /\ lock' = None
    /\ audio' = "idle"
    /\ UNCHANGED <<esr, sre, errors, output_config, call, conn>>

\* the data a recv() may return: a query of the status model, a query and a
\* setter of the signal generator, an undefined header, a command whose
\* handler raises SCPIError, a command whose handler fails otherwise
LockChunks ==
    {L_IDN \o NL, L_FUNCQ \o NL, L_OUTPON \o NL, L_BOGUS \o NL, L_DCYC150 \o NL,
     L_DCYCNAN \o NL}

NextLock ==
    \/ \E c \in Conns :
           \/ Accept(c)
           \/ \E data \in LockChunks : Recv(c, data)
           \/ RecvEOF(c)
           \/ AwaitData(c)
           \/ Enter(c)
           \/ Dispatch(c)
           \/ Send(c)
    \/ CallbackEnter
    \/ CallbackExit

SpecLock == Init /\ [][NextLock]_vars

(***************************************************************************)
(* The line server with the statements of esr_query and get_system_error   *)
(* as steps of their own, so that what another thread does between them    *)
(* shows (specification SpecSerial).  Between Enter and the end of the     *)
(* handler the thread holds audio_interface.lock.                          *)
(***************************************************************************)
\* the line that the thread of connection c is handling
Current(c) == Strip(SubSeq(conn[c].buffer, 1, Find(conn[c].buffer, 10, 1) - 1))

\* the handler bound to the first pattern that matches the line, "" if none
Bound(command, i) == IF i = 0 THEN "" ELSE commands[i].func

\* handle_command returns response: the `with` block releases the lock and
\* client_thread goes on to send the response or to the next line
Returns(c, response) ==
    /\ conn' = [conn EXCEPT ![c] =
           [@ EXCEPT !.buffer = SubSeq(@, Find(@, 10, 1) + 1, Len(@)),
                     !.command = Current(c),
                     !.response = response,
                     !.dispatched = Append(@, [command |-> Current(c),
                                               response |-> response]),
                     !.pc = IF response # None THEN "send" ELSE "lines"]]
    /\ lock' = None

\* esr_query: response = str(self.esr)
EsrRead(c) ==
    /\ conn[c].pc = "handling"
    /\ Bound(Current(c), FirstMatch(Current(c), 1)) = "esr_query"
    /\ conn' = [conn EXCEPT ![c] = [@ EXCEPT !.response = Some(IntToStr(esr)),
                                             !.pc = "esr_read"]]
    /\ UNCHANGED <<esr, sre, errors, output_config, call, lock, audio>>

\* esr_query: self.esr = 0; return response
EsrClear(c) ==
    /\ conn[c].pc = "esr_read"
    /\ esr' = 0
    /\ Returns(c, conn[c].response)
    /\ UNCHANGED <<sre, errors, output_config, call, audio>>

\* get_system_error: `if self.errors:`; with an empty queue it returns the
\* no-error entry
ErrorsTest(c) ==
    /\ conn[c].pc = "handling"
    /\ Bound(Current(c), FirstMatch(Current(c), 1)) = "get_system_error"
    /\ IF errors # <<>>
       THEN /\ conn' = [conn EXCEPT ![c] = [@ EXCEPT !.pc = "pop"]]
            /\ UNCHANGED lock
       ELSE Returns(c, Some("0,\"No error\""))
    /\ UNCHANGED <<esr, sre, errors, output_config, call, audio>>

\* get_system_error: status, message = self.errors.pop(0) and the return;
\* pop raises IndexError on a queue that is empty by now, which
\* handle_command reports as a device error
ErrorsPop(c) ==
    /\ conn[c].pc = "pop"
    /\ IF errors # <<>>
       THEN /\ errors' = Tail(errors)
            /\ Returns(c, Some(IntToStr(Head(errors)[1]) \o ",\"" \o Head(errors)[2] \o "\""))
            /\ UNCHANGED esr
       ELSE /\ errors' = push_error(Self, -300, "Device error").errors
            /\ esr' = push_error(Self, -300, "Device error").esr
            /\ Returns(c, None)
    /\ UNCHANGED <<sre, output_config, call, audio>>

\* the handlers that are not taken apart run as one step
DispatchWhole(c) ==
    /\ conn[c].pc = "handling"
    /\ Bound(Current(c), FirstMatch(Current(c), 1)) \notin {"esr_query", "get_system_error"}
    /\ Dispatch(c)

\* the lines that the connections of SpecSerial send: the two queries of
\* the status model, an undefined header, a command whose handler raises
\* SCPIError, a command whose handler fails otherwise, *CLS and *RST
SerialLines == {L_ESR, L_SYSTERR, L_BOGUS, L_DCYC150, L_DCYCNAN, L_CLS, L_RST}

\* the data a recv() may return
SerialChunks == {line \o NL : line \in SerialLines}

NextSerial ==
    \E c \in Conns :
        \/ Accept(c)
        \/ \E data \in SerialChunks : Recv(c, data)
        \/ AwaitData(c)
        \/ Enter(c)
        \/ EsrRead(c)
        \/ EsrClear(c)
        \/ ErrorsTest(c)
        \/ ErrorsPop(c)
        \/ DispatchWhole(c)
        \/ Send(c)

SpecSerial == Init /\ [][NextSerial]_vars

(***************************************************************************)
(* Construction of instruments: the class statements that have run, in     *)
(* order, fill the registry, and ScpiInstrument.__init__ resolves the      *)
(* commands of an instance of one of them (specification SpecResolve).     *)
(* utils/server.py runs first, since every other module imports            *)
(* scpi_command from it.  Next to the classes of the repository stand      *)
(* classes that a user of the library could write.  call.args is           *)
(* <<classes, cls>>.                                                       *)
(***************************************************************************)
\* most class statements run after those of utils/server.py
MaxLoaded == 3

RE_BENCH == "^BENCH:ID\\?$"
RE_LAB == "^LAB:ID\\?$"
RE_TEMP == "^MEAS(?:ure)?:TEMP(?:erature)?\\?$"
RE_PROBE == "^MEAS(?:ure)?:PROB(?:e)?\\?$"

\* class BenchGenerator(ScpiSignalGenerator), on the class of instruments/audio
BenchGenerator ==
    ClassStatement("bench", "BenchGenerator", <<AudioGenerator>>,
                   << Decorated("BenchGenerator", "get_bench_id", RE_BENCH) >>)

\* class LabGenerator(BenchGenerator)
LabGenerator ==
    ClassStatement("lab", "LabGenerator", <<BenchGenerator>>,
                   << Decorated("LabGenerator", "get_lab_id", RE_LAB) >>)

\* class Thermometer(ScpiInstrument)
Thermometer ==
    ClassStatement("thermo", "Thermometer", <<ServerInstrument>>,
                   << Decorated("Thermometer", "get_temperature", RE_TEMP) >>)

\* class ThermometerProbe(ScpiInstrument)
ThermometerProbe ==
    ClassStatement("probe", "ThermometerProbe", <<ServerInstrument>>,
                   << Decorated("ThermometerProbe", "get_probe", RE_PROBE) >>)

\* the classes whose statements run after utils/server.py
LaterClasses == {AudioGenerator, BenchGenerator, LabGenerator, Thermometer, ThermometerProbe}

\* the classes of utils/server.py, in the order of the file
ServerClasses == <<ServerInstrument, ServerGenerator>>

\* a class statement runs once, after those of its bases
InOrder(classes) ==
    \A i \in 1..Len(classes) :
        /\ \A j \in 1..Len(classes) : classes[j] = classes[i] => j = i
        /\ \A b \in 1..Len(classes[i].bases) :
               \/ classes[i].bases[b] = ABC
               \/ \E j \in 1..(i - 1) : classes[j] = classes[i].bases[b]

\* the class statements that have run, in order
LoadOrders ==
    {classes \in {ServerClasses \o later :
                      later \in UNION {[1..k -> LaterClasses] : k \in 0..MaxLoaded}} :
         InOrder(classes)}

\* cls(...) : ScpiInstrument.__init__ for an instance of cls, after the class
\* statements have run.  The assignments of errors, esr and sre come after
\* the loop over SCPI_COMMANDS, which an exception of getattr leaves
CallConstruct(classes, cls) ==
    LET r == ScpiInstrument_init(cls, Loaded(<<>>, classes, 1)) IN
        /\ call' = [op |-> "ScpiInstrument.__init__", args |-> <<classes, cls>>,
                    before |-> None,
                    response |-> IF r.exc = None THEN Some(r.commands) ELSE None,
                    invoked |-> <<>>, raised |-> r.exc]
        /\ errors' = IF r.exc = None THEN <<>> ELSE errors
        /\ esr' = IF r.exc = None THEN 0 ELSE esr
        /\ sre' = IF r.exc = None THEN 0 ELSE sre
        /\ UNCHANGED <<output_config, conn, lock, audio>>

NextResolve ==
    \E classes \in LoadOrders : \E k \in 1..Len(classes) : CallConstruct(classes, classes[k])

SpecResolve == Init /\ [][NextResolve]_vars

(***************************************************************************)
(* Properties.                                                             *)
(***************************************************************************)
\* the most recent call was handle_command(line)
Handled(line) == call.op = "handle_command" /\ call.args = <<line>>

\* the fields of the instrument when the most recent call was made
Before == call.before[1]

\* bit b (a power of two) is set in x
HasBit(x, b) == (x \div b) % 2 = 1

EsrBits == {1, 2, 4, 8, 16, 32, 64, 128}

\* x is y with bit b set and every other bit as in y
IsWithBit(x, y, b) == \A k \in EsrBits : HasBit(x, k) <=> (HasBit(y, k) \/ k = b)

\* C1: after handle_command("*CLS"), whatever ESR and the error queue held,
\* ESR is 0 and the queue is empty, so that *ESR? would now return "0" and
\* SYSTem:ERRor? the no-error entry.
C1_ClsClearsStatus ==
    Handled(L_CLS) =>
        /\ esr = 0
        /\ errors = <<>>
        /\ \A query \in {L_ESR, L_SYSTERR} :
               handle_command(Self, query).response =
                   Some(IF query = L_ESR THEN "0" ELSE "0,\"No error\"")

\* *CLS was dispatched with two bits set in ESR and a full error queue
C1_Witness ==
    /\ Handled(L_CLS)
    /\ Before.esr = 40
    /\ Len(Before.errors) >= 2
    /\ esr = 0
    /\ errors = <<>>

\* the ESR bit the claim assigns to an error code
C2_ClassBit(c) ==
    IF -200 < c /\ c <= -100 THEN 32
    ELSE IF -300 < c /\ c <= -200 THEN 16
    ELSE IF -400 < c /\ c <= -300 THEN 8
    ELSE IF c <= -400 THEN 4
    ELSE 16

\* C2: push_error(c, msg) appends (c, msg) at the tail of the queue and sets
\* exactly the bit of c's class in ESR (0x20 for -200 < c <= -100, 0x10 for
\* -300 < c <= -200, 0x08 for -400 < c <= -300, 0x04 for c <= -400, 0x10 for
\* every other code), every other ESR bit staying as it was.
C2_PushErrorClassifies ==
    call.op = "push_error" =>
        /\ errors = Before.errors \o <<call.args>>
        /\ IsWithBit(esr, Before.esr, C2_ClassBit(call.args[1]))
        /\ sre = Before.sre
        /\ output_config = Before.output_config

\* a query error (-430) was pushed onto a non-empty queue while another
\* class bit was set: only bit 0x04 was added
C2_Witness ==
    /\ call.op = "push_error"
    /\ call.args[1] = -430
    /\ Before.esr = 32
    /\ esr = 36
    /\ Len(errors) = 2
    /\ errors[2] = <<-430, "message">>

\* C3: *ESR? returns the decimal value ESR had before the query and leaves
\* ESR = 0, so that a second *ESR? right after it returns "0"; the error
\* queue and SRE are not changed.
C3_EsrReadAndClear ==
    Handled(L_ESR) =>
        /\ call.response = Some(IntToStr(Before.esr))
        /\ (Before.esr = 40 => call.response = Some("40"))
        /\ esr = 0
        /\ errors = Before.errors
        /\ sre = Before.sre
        /\ handle_command(Self, L_ESR).response = Some("0")

\* *ESR? returned the accumulated bits of two errors that are still queued
C3_Witness ==
    /\ Handled(L_ESR)
    /\ Before.esr = 40
    /\ call.response = Some("40")
    /\ esr = 0
    /\ Len(errors) = 2

\* the SYSTem:ERRor? response for each entry the modelled commands queue
C4_Response(entry) ==
    CASE entry = <<-113, "Undefined header">> -> "-113,\"Undefined header\""
      [] entry = <<-104, "Data type error">> -> "-104,\"Data type error\""
      [] entry = <<-222, "Data out of range">> -> "-222,\"Data out of range\""
      [] entry = <<-300, "Device error">> -> "-300,\"Device error\""
      [] entry = <<-221, "Settings conflict (not calibrated)">> ->
             "-221,\"Settings conflict (not calibrated)\""
      [] entry = <<-224, "Illegal parameter value">> -> "-224,\"Illegal parameter value\""
      [] entry = <<-108, "Parameter not allowed">> -> "-108,\"Parameter not allowed\""

\* xs is ys with entries appended at its tail
Extends(xs, ys) == Len(xs) >= Len(ys) /\ SubSeq(xs, 1, Len(ys)) = ys

\* C4: the error queue is first-in first-out.  SYSTem:ERRor? returns and
\* removes the oldest entry, and returns 0,"No error" leaving the queue
\* empty when there is none; every other command leaves the queued entries in
\* place and in order, adding new ones only at the tail, or (*CLS, *RST)
\* empties the queue.
C4_ErrorQueueFifo ==
    /\ Handled(L_SYSTERR) /\ Before.errors # <<>> =>
           /\ call.response = Some(C4_Response(Head(Before.errors)))
           /\ errors = Tail(Before.errors)
    /\ Handled(L_SYSTERR) /\ Before.errors = <<>> =>
           /\ call.response = Some("0,\"No error\"")
           /\ errors = <<>>
    /\ call.op = "handle_command" /\ ~Handled(L_SYSTERR) =>
           \/ Extends(errors, Before.errors)
           \/ call.args[1] \in {L_CLS, L_RST} /\ errors = <<>>

\* SYSTem:ERRor? returned the older of two different queued errors and left
\* the newer one
C4_Witness ==
    /\ Handled(L_SYSTERR)
    /\ Before.errors = << <<-113, "Undefined header">>, <<-300, "Device error">> >>
    /\ call.response = Some("-113,\"Undefined header\"")
    /\ errors = << <<-300, "Device error">> >>

\* no pattern of the resolved command list matches the line
Unmatched(line) == \A i \in 1..Len(commands) : ~Match(commands[i].regex, line).matched

\* C5: a command line that matches no pattern invokes no handler, makes
\* handle_command return None, appends exactly (-113, "Undefined header") to
\* the queue and sets ESR bit 0x20; nothing else changes.
C5_UndefinedHeader ==
    call.op = "handle_command" /\ (Unmatched(call.args[1]) \/ call.args[1] \in {L_BOGUS, L_SHORT}) =>
        /\ Unmatched(call.args[1])
        /\ call.invoked = <<>>
        /\ call.response = None
        /\ call.raised = None
        /\ errors = Before.errors \o << <<-113, "Undefined header">> >>
        /\ IsWithBit(esr, Before.esr, 32)
        /\ sre = Before.sre
        /\ output_config = Before.output_config


\* an undefined header arrived while ESR held another bit and the queue
\* another error
C5_Witness ==
    /\ Handled(L_BOGUS)
    /\ Before.esr = 8
    /\ esr = 40
    /\ errors = << <<-300, "Device error">>, <<-113, "Undefined header">> >>
    /\ call.response = None

\* ESR AND SRE is not zero
C6_Summary(e, s) == \E k \in EsrBits : HasBit(e, k) /\ HasBit(s, k)

\* C6: in every reachable state *STB? returns "32" if ESR AND SRE is not
\* zero and "0" otherwise, and changes neither ESR, SRE nor the error queue.
C6_StbSummary ==
    /\ \A r \in {handle_command(Self, L_STB)} :
           /\ r.response = Some(IF C6_Summary(esr, sre) THEN "32" ELSE "0")
           /\ r.self = Self
    /\ Handled(L_STB) =>
           /\ call.response = Some(IF C6_Summary(Before.esr, Before.sre) THEN "32" ELSE "0")
           /\ esr = Before.esr
           /\ sre = Before.sre
           /\ errors = Before.errors

\* after *SRE 32 and an undefined header, *STB? returned "32"
C6_Witness ==
    /\ Handled(L_STB)
    /\ sre = 32
    /\ esr = 32
    /\ errors = << <<-113, "Undefined header">> >>
    /\ call.response = Some("32")

\* what the handler the dispatched line resolves to did on the fields the
\* instrument had: [self, ret, exc]
HandlerResult ==
    Invoke(commands[FirstMatch(call.args[1], 1)].func, Before,
           Match(commands[FirstMatch(call.args[1], 1)].regex, call.args[1]).groups)

\* the most recent call dispatched a line to a handler whose result is
\* this one, and which raised an exception of this kind (scpi: SCPIError,
\* otherwise any other fault)
HandlerRaised(result, scpi) ==
    /\ call.op = "handle_command"
    /\ ~Unmatched(call.args[1])
    /\ result.exc # None
    /\ (result.exc[1].type = "SCPIError") = scpi

\* what C7 says of the most recent call, the handler's result being this one
C7_Queued(result) ==
    /\ HandlerRaised(result, TRUE) =>
           /\ call.raised = None
           /\ call.response = None
           /\ errors = Before.errors \o << <<result.exc[1].code, result.exc[1].message>> >>
           /\ IsWithBit(esr, Before.esr, C2_ClassBit(result.exc[1].code))
           /\ sre = Before.sre
    /\ Handled(L_DCYC150) =>
           /\ HandlerRaised(result, TRUE)
           /\ errors = Before.errors \o << <<-222, "Data out of range">> >>
           /\ IsWithBit(esr, Before.esr, 16)
    /\ Handled(L_DCYCABC) =>
           /\ HandlerRaised(result, TRUE)
           /\ errors = Before.errors \o << <<-104, "Data type error">> >>
           /\ IsWithBit(esr, Before.esr, 32)
    /\ Handled(L_UNITVRMS) =>
           /\ HandlerRaised(result, TRUE)
           /\ errors = Before.errors \o << <<-221, "Settings conflict (not calibrated)">> >>
           /\ IsWithBit(esr, Before.esr, 16)
    /\ Handled(L_UNITFOO) =>
           /\ HandlerRaised(result, TRUE)
           /\ errors = Before.errors \o << <<-224, "Illegal parameter value">> >>
           /\ IsWithBit(esr, Before.esr, 16)
    /\ Handled(L_FREQQFOO) =>
           /\ HandlerRaised(result, TRUE)
           /\ errors = Before.errors \o << <<-108, "Parameter not allowed">> >>
           /\ IsWithBit(esr, Before.esr, 32)

\* C7: when the handler raises SCPIError(code, message), handle_command does
\* not propagate it: it returns None, appends exactly one entry with that
\* code and message to the queue, and sets the ESR bit of the code's class.
C7_ScpiErrorQueued == C7_Queued(HandlerResult)

\* an out-of-range duty cycle was reported behind an earlier device error
C7_Witness ==
    /\ Handled(L_DCYC150)
    /\ Before.esr = 8
    /\ esr = 24
    /\ errors = << <<-300, "Device error">>, <<-222, "Data out of range">> >>
    /\ call.response = None
    /\ call.raised = None

\* the calibration of the first channel when the most recent call was made
CalibrationBefore == Before.output_config[1].calibration_vrms_at_fs

\* the handler's result is an exception of this class
Failed(result, type) == result.exc # None /\ result.exc[1].type = type

\* what C8 says of the most recent call, the handler's result being this one
C8_Mapped(result) ==
    /\ HandlerRaised(result, FALSE) =>
           /\ call.raised = None
           /\ call.response = None
           /\ errors = Before.errors \o << <<-300, "Device error">> >>
           /\ IsWithBit(esr, Before.esr, 8)
           /\ sre = Before.sre
           /\ output_config = Before.output_config
    /\ Handled(L_DCYCNAN) =>
           /\ HandlerRaised(result, FALSE)
           /\ result.exc[1] = ValueError("Duty cycle must be between 0 and 100")
    /\ Handled(L_SYMMNAN) =>
           /\ HandlerRaised(result, FALSE)
           /\ result.exc[1] = ValueError("Skew must be between 0 and 100")
    /\ Handled(L_OFFS0) /\ CalibrationBefore = Some(Zero(FALSE)) =>
           /\ HandlerRaised(result, FALSE)
           /\ Failed(result, "ZeroDivisionError")
    /\ /\ Handled(L_VOLT1E5)
       /\ CalibrationBefore = Some(PosInf)
       /\ Before.output_config[1].voltage_unit = "dbu"
       => /\ HandlerRaised(result, FALSE)
          /\ Failed(result, "OverflowError")

\* C8: when the handler fails with anything that is not an SCPIError,
\* handle_command does not propagate it: it returns None, appends exactly
\* (-300, "Device error") and sets ESR bit 0x08, whatever the fault was.
C8_DeviceError == C8_Mapped(HandlerResult)

\* the OverflowError of a voltage in dBu on a channel calibrated to infinity
\* was reported as a device error, behind the device error that another
\* fault had queued
C8_Witness ==
    /\ Handled(L_VOLT1E5)
    /\ Failed(HandlerResult, "OverflowError")
    /\ Before.esr = 8
    /\ esr = 8
    /\ errors = << <<-300, "Device error">>, <<-300, "Device error">> >>
    /\ call.response = None
    /\ call.raised = None

\* the buffer after its first line has been split off
Rest(buffer) == SubSeq(buffer, Find(buffer, 10, 1) + 1, Len(buffer))

\* C9: no command line ends a connection's handler.  A handler that is
\* dispatching the lines of its buffer stays in its loop with the connection
\* open, and after a line that queued an error it goes on with the rest of
\* the buffer; a connection closes only when recv finds the peer gone or a
\* socket call fails, never in a step that received data.
C9_HandlerSurvivesCommands ==
    [][\A c \in Conns :
          /\ conn[c].pc \in {"lines", "handling"} =>
                 /\ conn'[c].state = "open"
                 /\ conn'[c].pc \in {"lines", "handling", "send", "recv"}
          /\ conn[c].pc = "handling" /\ conn'[c] # conn[c] /\ Len(errors') > Len(errors) =>
                 /\ conn'[c].pc = "lines"
                 /\ conn'[c].buffer = Rest(conn[c].buffer)
          /\ conn[c].state = "open" /\ conn'[c].state = "closed" =>
                 /\ conn[c].pc \in {"recv", "send"}
                 /\ conn'[c].stream = conn[c].stream
      ]_vars

\* C10: the server is pull-only.  Bytes are written to a connection only by
\* its own handler, as the response of the command line it has just
\* dispatched, followed by a newline; a command that queued an error writes
\* nothing, and no step writes to another connection.
C10_PullOnly ==
    [][\A c \in Conns :
          /\ conn'[c].out # conn[c].out =>
                 /\ conn[c].pc = "send"
                 /\ conn[c].response # None
                 /\ conn'[c].out = Append(conn[c].out, conn[c].response[1] \o "\n")
                 /\ \A d \in Conns \ {c} : conn'[d].out = conn[d].out
          /\ conn'[c].pc = "send" /\ conn[c].pc # "send" =>
                 /\ conn[c].pc = "handling"
                 /\ Len(errors') <= Len(errors)
                 /\ conn'[c].response = handle_command(Self, conn'[c].command).response
                 /\ conn'[c].response # None
                 /\ conn'[c].out = conn[c].out
          /\ Len(errors') > Len(errors) =>
                 \A d \in Conns :
                     /\ conn'[d].out = conn[d].out
                     /\ conn'[d].pc = "send" => conn[d].pc = "send"
          /\ conn[c].pc = "send" /\ conn'[c].pc = "send" =>
                 conn'[c].response = conn[c].response
      ]_vars

\* connection 1 sent an undefined header and was written nothing, while
\* connection 2 read the resulting ESR
C10_Witness ==
    /\ conn[1].command = L_BOGUS
    /\ conn[1].pc = "recv"
    /\ conn[1].out = <<>>
    /\ conn[2].command = L_ESR
    /\ conn[2].out = << "32\n" >>

\* the command lines that have no query form and execute successfully
NoQueryForm == {L_RST, L_CLS, L_SRE32, L_DCYC25, L_OUTPON}

\* the number of the first n dispatched commands of a connection that are
\* queries which returned a response
RECURSIVE Answers(_, _)
Answers(dispatched, n) ==
    IF n = 0 THEN 0
    ELSE Answers(dispatched, n - 1) +
         (IF dispatched[n].command \notin NoQueryForm /\ dispatched[n].response # None
          THEN 1 ELSE 0)

\* C11: a successfully executed command without a query form (*RST, *CLS,
\* *SRE <mask>, a setter) causes no bytes to be written: once a connection
\* has sent what it had to send, it has written one line per answered query
\* and nothing for any other command.
C11_SettersWriteNothing ==
    \A c \in Conns :
        conn[c].pc \in {"recv", "lines"} =>
            Len(conn[c].out) = Answers(conn[c].dispatched, Len(conn[c].dispatched))

\* the commands of the whole text s from position i on, the current line
\* starting at position start: its newline-terminated lines, stripped, the
\* empty ones dropped
RECURSIVE Frame(_, _, _)
Frame(s, i, start) ==
    IF i > Len(s) THEN <<>>
    ELSE IF s[i] # 10 THEN Frame(s, i + 1, start)
    ELSE IF Strip(SubSeq(s, start, i - 1)) = <<>> THEN Frame(s, i + 1, i + 1)
    ELSE <<Strip(SubSeq(s, start, i - 1))>> \o Frame(s, i + 1, i + 1)

\* the commands passed to handle_command so far
Commands(dispatched) == [i \in 1..Len(dispatched) |-> dispatched[i].command]

\* the text of everything a connection has received: [text, rest, exc]
Decoded(stream) == utf_8_decode(stream, 1, <<>>)

\* C13: framing depends only on the concatenated input.  At every moment the
\* commands a connection has passed to handle_command, followed by those
\* still complete in its buffer, are the stripped non-empty newline-terminated
\* lines of the text of everything it has received, however the bytes were
\* split into reads; text after the last newline is in neither.  The thread
\* ends with UnicodeDecodeError exactly when what it has received is not
\* UTF-8.
C13_FramingIgnoresReads ==
    \A c \in Conns :
        /\ conn[c].fault = Some("UnicodeDecodeError") <=> Decoded(conn[c].stream).exc # None
        /\ Decoded(conn[c].stream).exc = None =>
               Frame(Decoded(conn[c].stream).text, 1, 1) =
                   Commands(conn[c].dispatched) \o Frame(conn[c].buffer, 1, 1)

\* "*ID" and "N?\n" arrived in two reads and *IDN? was dispatched once and
\* answered
C13_Witness ==
    /\ conn[1].recvs = 2
    /\ conn[1].stream = P_ID \o P_N
    /\ Commands(conn[1].dispatched) = <<L_IDN>>
    /\ conn[1].out = << "workbench,signal-generator,0,1.0\n" >>
    /\ conn[1].buffer = <<>>

\* the lines written for the first n dispatched commands of a connection:
\* each response that is not None, followed by a newline
RECURSIVE Written(_, _)
Written(dispatched, n) ==
    IF n = 0 THEN <<>>
    ELSE Written(dispatched, n - 1) \o
         (IF dispatched[n].response = None THEN <<>>
          ELSE <<dispatched[n].response[1] \o "\n">>)

\* C12: with several connections open, what has been written to each one is
\* exactly the responses to its own commands, in the order the commands
\* arrived, each as one newline-terminated line; a command is dispatched only
\* when every earlier command of the connection has been answered.  The
\* commands are the lines received, unless the thread has ended on bytes
\* that are not UTF-8 or on a failed sendall.
C12_OwnResponsesInOrder ==
    \A c \in Conns :
        /\ conn[c].pc \in {"recv", "lines", "handling", "done", "none"} =>
               conn[c].out = Written(conn[c].dispatched, Len(conn[c].dispatched))
        /\ conn[c].pc = "send" =>
               /\ conn[c].dispatched # <<>>
               /\ conn[c].out = Written(conn[c].dispatched, Len(conn[c].dispatched) - 1)
        /\ conn[c].fault \notin {Some("UnicodeDecodeError"), Some("BrokenPipeError")} =>
               Commands(conn[c].dispatched) \o Frame(conn[c].buffer, 1, 1) =
                   Frame(Decoded(conn[c].stream).text, 1, 1)

\* two connections were answered at the same time: the first got the
\* identity and the ESR value, the second the no-error entry
C12_Witness ==
    /\ Commands(conn[1].dispatched) = <<L_IDN, L_ESR>>
    /\ conn[1].out = << "workbench,signal-generator,0,1.0\n", "0\n" >>
    /\ Commands(conn[2].dispatched) = <<L_SYSTERR>>
    /\ conn[2].out = << "0,\"No error\"\n" >>

\* C14: no operation blocks across connections.  While a connection's
\* handler is blocked in recv or in sendall it does not hold the lock, and
\* the next step of every other connection is enabled: to be accepted, to
\* receive, to take the lock (once the audio callback, if it is inside its
\* block, has left it, which it can), to run its command under the lock it
\* holds, to send its response.
C14_NoCrossBlocking ==
    \A c \in Conns :
        conn[c].pc \in {"recv", "send"} =>
            /\ lock # Some(c)
            /\ \A d \in Conns \ {c} :
                   /\ conn[d].state = "listening" => ENABLED Accept(d)
                   /\ conn[d].pc = "recv" /\ SumRecvs(Conns) < MaxRecv =>
                          ENABLED Recv(d, L_IDN \o NL)
                   /\ conn[d].pc = "lines" /\ Frame(conn[d].buffer, 1, 1) # <<>> =>
                          IF lock = None
                          THEN ENABLED (Enter(d) \/ SkipEmptyLine(d))
                          ELSE lock = Some(AudioThread) /\ ENABLED CallbackExit
                   /\ conn[d].pc = "handling" =>
                          /\ lock = Some(d)
                          /\ Len(errors) < MaxErrors =>
                                 \E r \in {handle_command(Self, Current(d))} :
                                     ENABLED Dispatching(d, Find(conn[d].buffer, 10, 1),
                                                         Current(d), r)
                   /\ conn[d].pc = "send" => ENABLED Send(d)

\* connection 1 was accepted and never sent anything; connection 2 was
\* accepted after it, sent *IDN? and was answered
C14_Witness ==
    /\ conn[1].pc = "recv"
    /\ conn[1].recvs = 0
    /\ conn[2].pc = "recv"
    /\ conn[2].out = << "workbench,signal-generator,0,1.0\n" >>
    /\ lock = None

\* the threads that are inside a section guarded by the lock
InLockedSection ==
    {c \in Conns : conn[c].pc = "handling"} \cup
    (IF audio = "callback" THEN {AudioThread} ELSE {})

\* C15: handle_command of the signal generator runs holding the audio
\* interface's lock and releases it however it ends: at most one thread, a
\* connection's or the audio callback's, is inside the locked section, the
\* lock is held by exactly that thread, and it is free when none is inside.
C15_LockedSection ==
    /\ Cardinality(InLockedSection) <= 1
    /\ \A th \in Conns \cup {AudioThread} : th \in InLockedSection <=> lock = Some(th)
    /\ \A c \in Conns :
           conn[c].dispatched # <<>> /\ conn[c].pc # "handling" => lock # Some(c)

\* connection 1 is running a command under the lock after a command of
\* connection 2 failed and released it; connection 2 has the next line ready
\* and the audio callback is waiting outside
C15_Witness ==
    /\ conn[1].pc = "handling"
    /\ lock = Some(1)
    /\ conn[2].dispatched = << [command |-> L_DCYCNAN, response |-> None] >>
    /\ errors = << <<-300, "Device error">> >>
    /\ conn[2].pc = "lines"
    /\ Frame(conn[2].buffer, 1, 1) # <<>>
    /\ audio = "idle"

\* the mask written in a *SRE <mask> line of the model, modulo 256: of a
\* mask of 4300 or 4301 digits 1 that is 11111111 modulo 256, 10 ** 8 being
\* a multiple of 256
MaskOf(line) ==
    CASE line = L_SRE32 -> 32
      [] line = L_SRE256 -> 256 % 256
      [] line = L_SRE300 -> 300 % 256
      [] line = L_SREU3 -> 3
      [] line = L_SRELONGS -> 7
      [] line = L_SRE4300 -> 11111111 % 256
      [] line = L_SRE4301 -> 11111111 % 256

\* C16: SRE is the mask of the most recent *SRE <mask> modulo 256, and 0
\* before the first one: *SRE <mask> stores mask mod 256, *SRE? returns the
\* stored value in decimal and changes nothing, and no other command (*CLS,
\* *RST, *ESR?, *STB?, a command that queues an error) changes SRE.
C16_SreIsMaskMod256 ==
    /\ call.op = "none" => sre = 0
    /\ call.op = "handle_command" =>
           IF call.args[1] \in {L_SRE32, L_SRE256, L_SRE300, L_SREU3, L_SRELONGS,
                                L_SRE4300, L_SRE4301}
           THEN sre = MaskOf(call.args[1])
           ELSE sre = Before.sre
    /\ Handled(L_SREQ) =>
           /\ call.response = Some(IntToStr(Before.sre))
           /\ (Before.sre = 44 => call.response = Some("44"))
           /\ esr = Before.esr
           /\ errors = Before.errors
    /\ sre \in 0..255

\* the patterns of the resolved command list that match the line
Matches(line) == {i \in 1..Len(commands) : Match(commands[i].regex, line).matched}

\* the fields of a ChannelConfig as its dataclass defaults give them
ChannelDefaults ==
    [sample_rate |-> SampleRate, waveform |-> "sine", frequency_hz |-> Num(1000000),
     amplitude_fs |-> Num(1000), dc_offset_fs |-> Zero(FALSE), asymmetry |-> Num(500),
     phase_deg |-> Zero(FALSE), voltage_unit |-> "dbfs", calibration_vrms_at_fs |-> None,
     output_enabled |-> FALSE, sweep_start_frequency_hz |-> Num(200000),
     sweep_stop_frequency_hz |-> Num(20000000), sweep_duration_s |-> Num(1000)]

\* C17: *RST delegates to *CLS and cascades.  The base class's reset empties
\* the error queue and zeroes ESR and nothing else; on the signal generator,
\* whose list holds the *RST pattern more than once, one *RST line runs reset once,
\* after which the queue is empty, ESR is 0 and every output channel has the
\* default configuration.
C17_ResetCascades ==
    /\ \A r \in {ScpiInstrument_reset(Self).self} :
           /\ r.errors = <<>>
           /\ r.esr = 0
           /\ r.sre = sre
           /\ r.output_config = output_config
    /\ Handled(L_RST) =>
           /\ Cardinality(Matches(L_RST)) > 1
           /\ call.invoked = <<"reset">>
           /\ call.response = None
           /\ errors = <<>>
           /\ esr = 0
           /\ sre = Before.sre
           /\ Len(output_config) = OutputChannels
           /\ \A i \in 1..OutputChannels : output_config[i] = ChannelDefaults

\* *RST arrived after every field of the first channel but the sample rate
\* had been set to another value than its default, the second channel too
\* had been changed and an undefined header had been queued
C17_Witness ==
    /\ Handled(L_RST)
    /\ \A f \in DOMAIN ChannelDefaults \ {"sample_rate"} :
           Before.output_config[1][f] # ChannelDefaults[f]
    /\ Before.output_config[2] # ChannelDefaults
    /\ Before.errors = << <<-113, "Undefined header">> >>
    /\ Before.esr = 32
    /\ output_config = [i \in 1..OutputChannels |-> ChannelDefaults]
    /\ errors = <<>>
    /\ esr = 0

\* the most recent call was a call of a coercion helper
Coercing == call.op \in {"get_int_parameter", "get_float_parameter"}

\* the meta-value a token of the model stands for, "none" for the others
MetaKind(token) ==
    IF token \in {T_min, T_MINIMUM, T_min_dotless} THEN "min"
    ELSE IF token \in {T_Max, T_maximum} THEN "max"
    ELSE IF token \in {T_def, T_DEFault} THEN "def"
    ELSE "none"

\* the argument of the most recent call that a meta-value selects
MetaArgument(kind) ==
    IF kind = "min" THEN call.args[3] ELSE IF kind = "max" THEN call.args[4] ELSE call.args[5]

\* C18: the coercion helpers resolve meta-values whatever their case.
\* MIN/MINIMUM returns the minimum, MAX/MAXIMUM the maximum and DEF/DEFAULT the
\* default, with no range check; in get_float_parameter a meta-value whose
\* bound or default is unset raises an SCPIError of the command-error class
\* (on the signal generator -108, "Parameter not allowed") and returns
\* nothing.
C18_MetaValues ==
    Coercing /\ MetaKind(call.args[2]) # "none" =>
        IF call.op = "get_int_parameter"
        THEN /\ call.raised = None
             /\ call.response = Some(MetaArgument(MetaKind(call.args[2])))
        ELSE IF MetaArgument(MetaKind(call.args[2])) # None
        THEN /\ call.raised = None
             /\ call.response = MetaArgument(MetaKind(call.args[2]))
        ELSE /\ call.response = None
             /\ call.raised # None
             /\ call.raised[1].type = "SCPIError"
             /\ call.raised[1].code \in -199..-100
             /\ call.args[1] = "ScpiSignalGenerator" =>
                    /\ call.raised[1].code = -108
                    /\ call.raised[1].message = "Parameter not allowed"

\* the signal generator's get_float_parameter returned the default 50.0 for
\* "DEFault" although the range checked was 0.0 to 10.0
C18_Witness ==
    /\ call.op = "get_float_parameter"
    /\ call.args = <<"ScpiSignalGenerator", T_DEFault, Some(Num(0)), Some(Num(10000)),
                     Some(Num(50000)), TRUE>>
    /\ call.response = Some(Num(50000))
    /\ call.raised = None

\* the value of a numeric token of the model in thousandths
TokenMilli(token) ==
    CASE token = T_15 -> 15000
      [] token = T_5 -> 5000
      [] token = T_neg3 -> -3000
      [] token = T_2p5 -> 2500
      [] token = T_0 -> 0
      [] token = T_10 -> 10000
      [] token = T_1e1 -> 10000
      [] token = T_1_0 -> 10000
      [] token = T_neg0 -> 0
      [] token = T_tab7 -> 7000
      [] token = T_u5 -> 5000

\* the tokens of the model that float() reads as a number
NumericTokens ==
    {T_15, T_5, T_neg3, T_2p5, T_0, T_10, T_1e1, T_1_0, T_neg0, T_tab7, T_u5,
     T_nan, T_inf}

\* the float that float() reads from a numeric token of the model
TokenFloat(token) ==
    IF token = T_neg0 THEN Zero(TRUE)
    ELSE IF token = T_nan THEN NaN
    ELSE IF token = T_inf THEN PosInf
    ELSE Num(TokenMilli(token))

\* the token of the most recent call is not a number for the helper called
NonNumeric ==
    \/ call.args[2] = T_abc
    \/ call.op = "get_int_parameter" /\ call.args[2] \in {T_2p5, T_1e1, T_nan, T_inf}

\* the token of the most recent call is a number outside the declared bounds
OutOfBounds ==
    /\ call.args[2] \in NumericTokens
    /\ ~NonNumeric
    /\ IF call.op = "get_int_parameter"
       THEN \/ TokenMilli(call.args[2]) < 1000 * call.args[3]
            \/ TokenMilli(call.args[2]) > 1000 * call.args[4]
       ELSE \/ call.args[3] # None /\ FLt(TokenFloat(call.args[2]), call.args[3][1])
            \/ call.args[4] # None /\ FLt(call.args[4][1], TokenFloat(call.args[2]))

\* the most recent call raised an SCPIError that sets exactly this ESR bit
\* when it is queued on an instrument with ESR = 0
RaisedWithBit(bit) ==
    /\ call.raised # None
    /\ call.raised[1].type = "SCPIError"
    /\ push_error([Self EXCEPT !.esr = 0], call.raised[1].code, call.raised[1].message).esr = bit

\* C19: the coercion helpers of both classes distinguish two error classes: a
\* token that is not a number raises an SCPIError of the command-error class
\* (ESR bit 0x20 when queued), a number outside the declared bounds one of
\* the execution-error class (ESR bit 0x10 when queued).
C19_TwoErrorClasses ==
    Coercing =>
        /\ NonNumeric => RaisedWithBit(32)
        /\ OutOfBounds /\ call.args[6] => RaisedWithBit(16)

\* the first pattern of the list that matches the line
FirstOf(line) == CHOOSE i \in Matches(line) : \A j \in Matches(line) : i <= j

\* C20: dispatch is first-match-wins in the order of the pattern list.  A line
\* that some pattern matches invokes exactly one handler, the one bound to
\* the first matching pattern, exactly once, even when later patterns match
\* too; a line that no pattern matches invokes no handler.
C20_FirstMatchWins ==
    call.op = "handle_command" =>
        IF Matches(call.args[1]) = {}
        THEN call.invoked = <<>>
        ELSE call.invoked = <<commands[FirstOf(call.args[1])].func>>

\* *RST, which two patterns of the list match, ran reset once
C20_Witness ==
    /\ Handled(L_RST)
    /\ Cardinality(Matches(L_RST)) > 1
    /\ FirstOf(L_RST) < Len(commands)
    /\ call.invoked = <<"reset">>

\* every bound of the most recent call that is set admits the float v, both
\* bounds included
Admits(v) ==
    /\ call.args[3] # None => FLe(call.args[3][1], v)
    /\ call.args[4] # None => FLe(v, call.args[4][1])

\* C21: for a numeric token get_float_parameter returns the parsed value
\* exactly when every bound that is set admits it, both bounds inclusive; an
\* unset minimum or maximum disables that side of the check only, and
\* check_range = FALSE disables the check entirely.  Otherwise it raises.
C21_InclusiveRange ==
    /\ call.op = "get_float_parameter"
    /\ call.args[2] \in NumericTokens
    => IF ~call.args[6] \/ Admits(TokenFloat(call.args[2]))
       THEN /\ call.raised = None
            /\ call.response = Some(TokenFloat(call.args[2]))
       ELSE /\ call.raised # None
            /\ call.response = None

\* the message with every double quote doubled, for the messages of the model
Doubled(message) ==
    IF message = "unit \"dBm\" unknown" THEN "unit \"\"dBm\"\" unknown" ELSE message

\* C23: the SYSTem:ERRor? response is <code>,"<message>" with every double
\* quote of the queued message doubled.
C23_QuotesDoubled ==
    Handled(L_SYSTERR) /\ Before.errors # <<>> =>
        call.response = Some(IntToStr(Head(Before.errors)[1]) \o ",\""
                             \o Doubled(Head(Before.errors)[2]) \o "\"")

\* C26: a connection handler ends cleanly when its peer goes away.  An empty
\* read, a reset connection or an aborted connection during a read ends
\* that handler with its socket closed and without a fault, and leaves
\* every other connection as it was.
C26_PeerGoneEndsCleanly ==
    [][\A c \in Conns :
           RecvEOF(c) \/ RecvReset(c) \/ RecvAborted(c) =>
               /\ conn'[c].state = "closed"
               /\ conn'[c].pc = "done"
               /\ \A d \in Conns \ {c} : conn'[d] = conn[d]]_vars

\* the most recent command is one of the clearing commands
Clearing == \E line \in {L_ESR, L_CLS, L_RST} : Handled(line)

\* C27: ESR is an accumulator.  *ESR?, *CLS and *RST leave it zero; every
\* other command keeps the bits that were set and adds at most one: bit
\* 0x01, added by *OPC? alone, which returns "1", or the class bit of the
\* error that the command queued.  No reachable ESR holds a bit outside
\* {0x01, 0x04, 0x08, 0x10, 0x20}.
C27_EsrAccumulates ==
    /\ \A k \in EsrBits \ {1, 4, 8, 16, 32} : ~HasBit(esr, k)
    /\ call.op = "handle_command" =>
           /\ Clearing => esr = 0
           /\ ~Clearing =>
                  /\ \A k \in EsrBits : HasBit(Before.esr, k) => HasBit(esr, k)
                  /\ Handled(L_OPC) => call.response = Some("1") /\ HasBit(esr, 1)
                  /\ ~Handled(L_OPC) => (HasBit(esr, 1) <=> HasBit(Before.esr, 1))
                  /\ IF Len(errors) = Len(Before.errors) + 1
                     THEN IsWithBit(esr, Before.esr, C2_ClassBit(errors[Len(errors)][1]))
                     ELSE \A k \in EsrBits \ {1} : HasBit(esr, k) <=> HasBit(Before.esr, k)

\* *OPC? added bit 0x01 to an ESR that held the bits of a command error and
\* of a device error
C27_Witness ==
    /\ Handled(L_OPC)
    /\ Before.esr = 40
    /\ esr = 41

\* the error that a command of SpecSerial queues
ErrorOf(command) ==
    IF command = L_BOGUS THEN <<-113, "Undefined header">>
    ELSE IF command = L_DCYC150 THEN <<-222, "Data out of range">>
    ELSE IF command = L_DCYCNAN THEN <<-300, "Device error">>
    ELSE <<0, "No error">>

\* number of entries of the sequence s that satisfy Test
RECURSIVE Count(_, _, _)
Count(s, Test(_), i) ==
    IF i > Len(s) THEN 0 ELSE (IF Test(s[i]) THEN 1 ELSE 0) + Count(s, Test, i + 1)

\* number of commands handled on the connections of S that queued the entry
RECURSIVE Caused(_, _)
Caused(entry, S) ==
    IF S = {} THEN 0
    ELSE LET c == CHOOSE x \in S : TRUE
             Causes(d) == ErrorOf(d.command) = entry
         IN  Count(conn[c].dispatched, Causes, 1) + Caused(entry, S \ {c})

\* number of SYSTem:ERRor? queries on the connections of S that returned the
\* entry
RECURSIVE Returned(_, _)
Returned(entry, S) ==
    IF S = {} THEN 0
    ELSE LET c == CHOOSE x \in S : TRUE
             Reports(d) == d.command = L_SYSTERR /\ d.response = Some(C4_Response(entry))
         IN  Count(conn[c].dispatched, Reports, 1) + Returned(entry, S \ {c})

\* number of times the entry is in the error queue
Queued(entry) == LET Is(e) == e = entry IN Count(errors, Is, 1)

\* some connection has handled *CLS or *RST
Cleared == \E c \in Conns : \E i \in 1..Len(conn[c].dispatched) :
               conn[c].dispatched[i].command \in {L_CLS, L_RST}

\* the errors that the commands of SpecSerial queue
SerialErrors == {ErrorOf(line) : line \in SerialLines} \ {<<0, "No error">>}

\* the queue holds errors of the commands sent only, and every error that a
\* command queued is in the queue or was returned by exactly one
\* SYSTem:ERRor? query, whatever the connection, unless a *CLS or a *RST
\* removed it; no error is returned or queued more often than it was caused
ExactlyOnce ==
    /\ \A i \in 1..Len(errors) : errors[i] \in SerialErrors
    /\ \A entry \in SerialErrors :
           /\ Caused(entry, Conns) >= Returned(entry, Conns) + Queued(entry)
           /\ ~Cleared => Caused(entry, Conns) = Returned(entry, Conns) + Queued(entry)

\* an ESR bit goes away only in the step in which a connection's *ESR?
\* returns the value of ESR that holds it, or in a *CLS or a *RST
NoBitLost ==
    \A k \in EsrBits :
        HasBit(esr, k) /\ ~HasBit(esr', k) =>
            \E c \in Conns :
                /\ \/ conn'[c].dispatched =
                          Append(conn[c].dispatched,
                                 [command |-> L_ESR, response |-> Some(IntToStr(esr))])
                   \/ \E line \in {L_CLS, L_RST} :
                          conn'[c].dispatched =
                              Append(conn[c].dispatched, [command |-> line, response |-> None])
                /\ esr' = 0

\* C30: with several connections driving the instrument the status model
\* behaves as if the commands ran one at a time.  Every queued error is
\* returned by exactly one SYSTem:ERRor? over all connections or is still
\* queued, and an ESR bit set by one connection's error is never lost to
\* another connection's *ESR?: it stays set until an *ESR? returns it or a
\* *CLS or *RST clears it.
C30_StatusSerialized == []ExactlyOnce /\ [][NoBitLost]_vars

\* connection 2 read with *ESR? and SYSTem:ERRor? the error that the
\* undefined header sent on connection 1 had queued
C30_Witness ==
    /\ conn[1].dispatched = <<[command |-> L_BOGUS, response |-> None]>>
    /\ conn[2].dispatched =
           <<[command |-> L_ESR, response |-> Some("32")],
             [command |-> L_SYSTERR, response |-> Some("-113,\"Undefined header\"")]>>
    /\ errors = <<>>
    /\ esr = 0


\* the handlers of the model that answer a parameter query
QueryHandlers ==
    {"get_source_frequency_command", "get_source_voltage_command",
     "get_source_dc_offset_command", "get_source_calibration_command",
     "get_source_asymmetry_command", "get_source_phase_deg_command",
     "get_source_period_command", "get_source_duty_cycle_command",
     "get_source_pulse_width_command", "get_source_sweep_start_frequency_command",
     "get_source_sweep_stop_frequency_command", "get_source_sweep_time_command"}

\* the most recent call dispatched a line to a parameter query
Queried ==
    /\ call.op = "handle_command"
    /\ call.invoked # <<>>
    /\ call.invoked[1] \in QueryHandlers

\* the meta-value that the parameter of the most recent direct call of
\* get_float_parameter_value stands for, "none" when there is no parameter
\* or another token
QueryKind == IF call.args[2] = None THEN "none" ELSE MetaKind(call.args[2][1])

\* the most recent direct call of get_float_parameter_value returned the
\* text of this float
Answered(x) == call.raised = None /\ call.response = Some(FloatStr(x))

\* C22: a parameter query returns the bound or default that a
\* meta-token names, as a string, fails when that bound is unset, and
\* otherwise returns the current value; a query never changes the channel
\* configuration, ESR or SRE, nor the error queue when it succeeds.
C22_QueryReadsOnly ==
    /\ call.op = "get_float_parameter_value" =>
           IF QueryKind # "none"
           THEN IF MetaArgument(QueryKind) = None
                THEN call.raised # None /\ call.response = None
                ELSE Answered(MetaArgument(QueryKind)[1])
           ELSE Answered(call.args[6])
    /\ Queried =>
           /\ output_config = Before.output_config
           /\ esr = Before.esr
           /\ sre = Before.sre
           /\ call.response # None => errors = Before.errors


\* the handlers of the model that set a field of a channel's configuration
Setters ==
    {"set_output_enabled_command", "set_source_function_command",
     "set_source_frequency_command", "set_source_voltage_command",
     "set_source_voltage_unit_command", "set_source_dc_offset_command",
     "set_source_calibration_command", "set_source_asymmetry_command",
     "set_source_phase_deg_command", "set_source_period_command",
     "set_source_duty_cycle_command", "set_source_pulse_width_command",
     "set_source_sweep_start_frequency_command", "set_source_sweep_stop_frequency_command",
     "set_source_sweep_time_command"}

\* the most recent call dispatched a line to a setter
SetterRan ==
    /\ call.op = "handle_command"
    /\ call.invoked # <<>>
    /\ call.invoked[1] \in Setters

\* the amplitude of -6 dBFS as a fraction of full scale: 10 ** (-6 / 20)
MinusSixDecibels == Float(FALSE, <<5, 0, 1, 1, 8, 7, 2, 3, 3, 6, 2, 7, 2, 7, 2, 2>>, 0)

\* the most recent call queued this error, and nothing else, behind the
\* errors that were waiting
QueuedOne(code, message) == errors = Before.errors \o << <<code, message>> >>

\* the most recent call dispatched the line to this setter, which queued
\* this error and nothing else
SetterRefused(line, func, code, message) ==
    Handled(line) => call.invoked = <<func>> /\ QueuedOne(code, message)

\* the calibration of the first channel is unset before the most recent call
Uncalibrated == Before.output_config[1].calibration_vrms_at_fs = None

\* C28: a setter of the channel configuration validates before it mutates.
\* A setter that fails - on a channel suffix of 0 or beyond the channels, a
\* token that is not a number, a value out of range, an unknown name, a
\* unit or an offset that needs the calibration the channel lacks, a
\* calibration default that is unset - leaves the configuration of every
\* channel as it was: it queues one error, sets the ESR bit of that error's
\* class, and changes nothing else.  Each of the fifteen setters refuses one
\* line of the model at least.
C28_SettersValidateFirst ==
    /\ SetterRan =>
           /\ call.response = None
           /\ call.raised = None
           /\ sre = Before.sre
           /\ \/ errors = Before.errors /\ esr = Before.esr
              \/ /\ output_config = Before.output_config
                 /\ Len(errors) = Len(Before.errors) + 1
                 /\ SubSeq(errors, 1, Len(Before.errors)) = Before.errors
                 /\ IsWithBit(esr, Before.esr, C2_ClassBit(errors[Len(errors)][1]))
    /\ SetterRefused(L_OUTP9ON, "set_output_enabled_command", -222, "Data out of range")
    /\ SetterRefused(L_FUNCFOO, "set_source_function_command", -224, "Illegal parameter value")
    /\ SetterRefused(L_S0FREQ5, "set_source_frequency_command", -222, "Data out of range")
    /\ SetterRefused(L_S9FREQ5, "set_source_frequency_command", -222, "Data out of range")
    /\ SetterRefused(L_FREQABC, "set_source_frequency_command", -104, "Data type error")
    /\ SetterRefused(L_S2FREQABC, "set_source_frequency_command", -104, "Data type error")
    /\ SetterRefused(L_FREQ99999, "set_source_frequency_command", -222, "Data out of range")
    /\ SetterRefused(L_VOLT7, "set_source_voltage_command", -222, "Data out of range")
    /\ SetterRefused(L_UNITFOO, "set_source_voltage_unit_command", -224, "Illegal parameter value")
    /\ call.op = "handle_command" /\ Uncalibrated =>
           /\ SetterRefused(L_UNITVRMS, "set_source_voltage_unit_command",
                      -221, "Settings conflict (not calibrated)")
           /\ SetterRefused(L_OFFS9, "set_source_dc_offset_command",
                      -221, "Settings conflict (not calibrated)")
    /\ call.op = "handle_command" /\ ~Uncalibrated =>
           SetterRefused(L_OFFS9, "set_source_dc_offset_command", -222, "Data out of range")
    /\ SetterRefused(L_CALDEF, "set_source_calibration_command", -108, "Parameter not allowed")
    /\ SetterRefused(L_SYMM150, "set_source_asymmetry_command", -222, "Data out of range")
    /\ SetterRefused(L_PHAS400, "set_source_phase_deg_command", -222, "Data out of range")
    /\ SetterRefused(L_PER0, "set_source_period_command", -222, "Data out of range")
    /\ SetterRefused(L_DCYC150, "set_source_duty_cycle_command", -222, "Data out of range")
    /\ SetterRefused(L_PWID5, "set_source_pulse_width_command", -222, "Data out of range")
    /\ SetterRefused(L_SWESTARABC, "set_source_sweep_start_frequency_command",
               -104, "Data type error")
    /\ SetterRefused(L_SWESTOP99999, "set_source_sweep_stop_frequency_command",
               -222, "Data out of range")
    /\ SetterRefused(L_SWETIME0, "set_source_sweep_time_command", -222, "Data out of range")
    /\ Handled(L_FREQ5) =>
           /\ SetterRan
           /\ errors = Before.errors
           /\ output_config =
                  [Before.output_config EXCEPT ![1] = [@ EXCEPT !.frequency_hz = Num(5000)]]
    /\ Handled(L_S2FREQ5) =>
           /\ SetterRan
           /\ errors = Before.errors
           /\ output_config =
                  [Before.output_config EXCEPT ![2] = [@ EXCEPT !.frequency_hz = Num(5000)]]
    /\ Handled(L_UNITVRMS) /\ ~Uncalibrated =>
           /\ SetterRan
           /\ errors = Before.errors
           /\ output_config =
                  [Before.output_config EXCEPT ![1] = [@ EXCEPT !.voltage_unit = "vrms"]]

\* an offset of 9 V was refused on a channel calibrated to 2.5 Vrms at full
\* scale and set to Vrms, both channels having been tuned to 5 Hz, and the
\* channels kept all of it
C28_Witness ==
    /\ Handled(L_OFFS9)
    /\ errors = Before.errors \o << <<-222, "Data out of range">> >>
    /\ HasBit(esr, 16)
    /\ output_config[1].frequency_hz = Num(5000)
    /\ output_config[1].voltage_unit = "vrms"
    /\ output_config[1].calibration_vrms_at_fs = Some(Num(2500))
    /\ output_config[2].frequency_hz = Num(5000)
    /\ output_config = Before.output_config


\* the line of the model that sets the first channel to a unit
UnitLine(unit) ==
    CASE unit = "vrms" -> L_UNITVRMS
      [] unit = "dbu" -> L_UNITDBU
      [] unit = "vpp" -> L_UNITVPP

\* C29: a channel whose voltage unit is not dBFS has a calibration.  A unit
\* other than dBFS is refused while the calibration is unset, VOLTage:CALibration
\* never unsets it (DEFault is refused with -108, the default being unset),
\* and *RST puts every channel back to dBFS without calibration; so
\* get_voltage_limits never finds a channel "not calibrated", and VOLTage?
\* always answers.
C29_UnitImpliesCalibration ==
    /\ \A i \in 1..Len(output_config) :
           /\ output_config[i].voltage_unit # "dbfs" =>
                  output_config[i].calibration_vrms_at_fs # None
           /\ get_voltage_limits(Self, i - 1).exc = None
    /\ call.op = "handle_command" /\ call.invoked = <<"set_source_calibration_command">> =>
           \A i \in 1..Len(output_config) :
               Before.output_config[i].calibration_vrms_at_fs # None =>
                   output_config[i].calibration_vrms_at_fs # None
    /\ Handled(L_CALDEF) =>
           /\ QueuedOne(-108, "Parameter not allowed")
           /\ output_config = Before.output_config
    /\ Handled(L_RST) =>
           \A i \in 1..Len(output_config) :
               /\ output_config[i].voltage_unit = "dbfs"
               /\ output_config[i].calibration_vrms_at_fs = None
    /\ Handled(L_VOLTQ) => call.response # None /\ errors = Before.errors
    /\ \A unit \in {"vrms", "dbu", "vpp"} :
           Handled(UnitLine(unit)) =>
               IF Before.output_config[1].calibration_vrms_at_fs = None
               THEN /\ QueuedOne(-221, "Settings conflict (not calibrated)")
                    /\ output_config = Before.output_config
               ELSE /\ errors = Before.errors
                    /\ output_config =
                           [Before.output_config EXCEPT ![1] = [@ EXCEPT !.voltage_unit = unit]]

\* VOLT? was answered in dBu on a channel that had been set to -6 dBFS and
\* calibrated to 2.5 Vrms at full scale, while the second channel was in
\* dBFS without calibration
C29_Witness ==
    /\ Handled(L_VOLTQ)
    /\ output_config[1].voltage_unit = "dbu"
    /\ output_config[1].calibration_vrms_at_fs = Some(Num(2500))
    /\ output_config[1].amplitude_fs = MinusSixDecibels
    /\ output_config[2] = ChannelDefaults
    /\ call.response = Some("4.177287669604314")


(***************************************************************************)
(* Command resolution at construction.                                     *)
(***************************************************************************)
Constructed == call.op = "ScpiInstrument.__init__" /\ call.raised = None

\* the class statements of a class and of its direct base classes, in order
Direct(classes, cls) ==
    LET direct(c) == c = cls \/ \E b \in 1..Len(cls.bases) : c = cls.bases[b]
    IN  SelectSeq(classes, direct)

\* the number of times a resolved list holds the entry
Occurrences(resolved, entry) ==
    Cardinality({i \in 1..Len(resolved) : resolved[i] = entry})

\* two resolved lists hold the same entries the same number of times
SameEntries(a, b) ==
    \A entry \in {a[i] : i \in 1..Len(a)} \cup {b[i] : i \in 1..Len(b)} :
        Occurrences(a, entry) = Occurrences(b, entry)

\* the patterns of a resolved list
Patterns(resolved) == {resolved[i].regex : i \in 1..Len(resolved)}

\* C24: the commands of a constructed instrument are those that its own
\* class and its direct base classes registered, and no others: the
\* resolved list holds what the class statements of these classes alone
\* give.  An instance of a subclass of ScpiSignalGenerator answers the
\* commands of that subclass and of ScpiSignalGenerator but not *IDN?, which
\* only ScpiInstrument registers, and a subclass of that subclass loses the
\* commands of ScpiSignalGenerator.
C24_DirectBasesOnly ==
    Constructed =>
        /\ SameEntries(call.response[1],
                       ScpiInstrument_init(call.args[2],
                           Loaded(<<>>, Direct(call.args[1], call.args[2]), 1)).commands)
        /\ call.args[2] = BenchGenerator =>
               /\ {RE_BENCH, RE_FREQ_SET, RE_SWE_TIME_SET} \subseteq Patterns(call.response[1])
               /\ Patterns(call.response[1]) \cap {RE_IDN, RE_CLS, RE_SYST_ERR} = {}
        /\ call.args[2] = LabGenerator =>
               /\ {RE_LAB, RE_BENCH} \subseteq Patterns(call.response[1])
               /\ Patterns(call.response[1]) \cap {RE_IDN, RE_FREQ_SET} = {}


\* a class and its declared ancestors
RECURSIVE Ancestry(_)
Ancestry(cls) == {cls} \cup UNION {Ancestry(cls.bases[b]) : b \in 1..Len(cls.bases)}

\* the class statements of a class and of its declared ancestors, in order
Related(classes, cls) ==
    LET related(c) == c \in Ancestry(cls) IN SelectSeq(classes, related)

\* C25: constructing an instrument gives what it gives when only the class
\* statements of its own class and of its declared ancestors have run: a
\* class outside its ancestry adds no entry to the resolved list and does not
\* change whether construction succeeds, also when that class has the same
\* qualified name as the class of the instrument.
C25_UnrelatedClassesApart ==
    call.op = "ScpiInstrument.__init__" =>
        /\ call.raised = ScpiInstrument_init(call.args[2],
                             Loaded(<<>>, Related(call.args[1], call.args[2]), 1)).exc
        /\ call.raised = None =>
               call.response[1] = ScpiInstrument_init(call.args[2],
                                      Loaded(<<>>, Related(call.args[1], call.args[2]), 1)).commands

====
